---- MODULE Spec2Model ----
(***************************************************************************)
(* Model of the gondifees ingestion pipeline: the block-range paginator    *)
(* (lib/blockchain.ts), the per-network collectors, the incremental cursor *)
(* store (lib/last-processed.ts) and the /api/fees query handler.          *)
(***************************************************************************)
EXTENDS Integers, Sequences, FiniteSets, TLC

VARIABLES
    pag,            \* the locals of one fetchTransactionsPaginated run
    inflight,       \* windows whose provider request is outstanding (observer)
    lastResponse,   \* the provider's answer the run handled last (observer)
    requested,      \* the windows the run requested so far, in order (observer)
    serverStorage,  \* last-processed.ts: the cursor record of each network
    chain,          \* the provider: how many transfers each network holds
    queries,        \* the /api/fees queries being served, by slot
    started,        \* number of queries started so far
    retry,          \* one call of fetchWithRetry
    collect,        \* one collector applied to one provider answer
    agg,            \* one call of aggregateFees or of the classifier
    oracle,         \* lib/prices.ts: the clock, priceCache and the lookups under way
    budget          \* the /api/fees module: its load time, the clock, the query served

pagVars == <<pag, inflight, lastResponse, requested>>
queryVars == <<serverStorage, chain, queries, started>>
auxVars == <<retry, collect, agg, oracle, budget>>
vars == <<pag, inflight, lastResponse, requested,
          serverStorage, chain, queries, started, retry, collect, agg,
          oracle, budget>>

Networks == {"ethereum", "hyperevm"}

\* The value of a variable that the specification at hand does not use.
Unused == [pc |-> "unused"]

(***************************************************************************)
(* Bounds of the model.                                                    *)
(***************************************************************************)
\* Highest block a run is asked for (the collectors pass 99999999).
MaxEndBlock == 5999999
\* The provider holds transfers only in the first HeadWindows windows of a
\* run: beyond the chain head every window is empty (or fails).
HeadWindows == 2
\* Queries served at the same time, and queries started in one behaviour.
MaxConcurrent == 1
MaxQueries == 2
\* Transfers each network's chain comes to hold.
MaxTransfers == 3
\* The provider fails at most one request of a run, among its first
\* FailWindows requests.
FailWindows == 3
\* The chain head the collectors scan up to (the source passes 99999999).
TopBlock == 1499999

(***************************************************************************)
(* fetchTransactionsPaginated: constants                                   *)
(***************************************************************************)
BLOCK_RANGE(network) == IF network = "ethereum" THEN 100000 ELSE 500000

MAX_RESULTS == 10000

MAX_EMPTY_RANGES(network) == IF network = "ethereum" THEN 50 ELSE 10

\* Math.min / Math.ceil(a / b) for b > 0
Min(a, b) == IF a < b THEN a ELSE b
CeilDiv(a, b) == -((-a) \div b)

(***************************************************************************)
(* Provider results.  A result list is a sequence of raw records; `copies` *)
(* records that differ in nothing the pipeline reads are written once, so  *)
(* that a page of exactly 10,000 records stays a short sequence.           *)
(***************************************************************************)
RECURSIVE ResultsLength(_)
ResultsLength(results) ==
    IF results = <<>> THEN 0
    ELSE Head(results).copies + ResultsLength(Tail(results))

(***************************************************************************)
(* fetchTransactionsPaginated: the loop                                    *)
(***************************************************************************)
PagStart(network, startBlock, endBlock) ==
    [ network |-> network, startBlock |-> startBlock, endBlock |-> endBlock,
      currentStart |-> startBlock, attempt |-> 0,
      consecutiveEmptyRanges |-> 0, allResults |-> <<>>, pc |-> "loop" ]

maxAttempts(p) ==
    CeilDiv(p.endBlock - p.startBlock, BLOCK_RANGE(p.network)) + 100

LoopCondition(p) == p.currentStart <= p.endBlock /\ p.attempt < maxAttempts(p)

CurrentEnd(p) == Min(p.currentStart + BLOCK_RANGE(p.network) - 1, p.endBlock)

\* while-header and the lines up to the await of fetchWithRetry: either the
\* loop is left and allResults returned, or the next window is requested.
PagEnter(p) ==
    IF LoopCondition(p)
    THEN [p EXCEPT !.attempt = p.attempt + 1, !.pc = "fetching"]
    ELSE [p EXCEPT !.pc = "returned"]

\* Variant of PagResults that stays on a window that returned the page cap.
PagResults_CapStays(p, results) ==
    LET n == ResultsLength(results)
        all == IF n > 0 THEN p.allResults \o results ELSE p.allResults
        empties == IF n > 0 THEN 0 ELSE p.consecutiveEmptyRanges + 1
        q == [p EXCEPT !.allResults = all,
                       !.consecutiveEmptyRanges = empties]
        advance == [q EXCEPT !.currentStart = CurrentEnd(p) + 1, !.pc = "loop"]
    IN  IF n = MAX_RESULTS THEN [q EXCEPT !.pc = "loop"]
        ELSE IF n > 0 /\ n < MAX_RESULTS THEN advance
        ELSE IF ResultsLength(all) > 0 /\ empties >= MAX_EMPTY_RANGES(p.network)
             THEN [q EXCEPT !.pc = "returned"]
             ELSE advance

\* Variant of PagResults that never resets the empty-window counter.
PagResults_NoReset(p, results) ==
    LET n == ResultsLength(results)
        all == IF n > 0 THEN p.allResults \o results ELSE p.allResults
        empties == IF n > 0 THEN p.consecutiveEmptyRanges
                   ELSE p.consecutiveEmptyRanges + 1
        q == [p EXCEPT !.allResults = all,
                       !.consecutiveEmptyRanges = empties]
        advance == [q EXCEPT !.currentStart = CurrentEnd(p) + 1, !.pc = "loop"]
    IN  IF n = MAX_RESULTS THEN advance
        ELSE IF n > 0 /\ n < MAX_RESULTS THEN advance
        ELSE IF ResultsLength(all) > 0 /\ empties >= MAX_EMPTY_RANGES(p.network)
             THEN [q EXCEPT !.pc = "returned"]
             ELSE advance

\* Variant of PagResults that stays on a window that returned nothing.
PagResults_EmptyStays(p, results) ==
    LET n == ResultsLength(results)
        all == IF n > 0 THEN p.allResults \o results ELSE p.allResults
        empties == IF n > 0 THEN 0 ELSE p.consecutiveEmptyRanges + 1
        q == [p EXCEPT !.allResults = all,
                       !.consecutiveEmptyRanges = empties]
        advance == [q EXCEPT !.currentStart = CurrentEnd(p) + 1, !.pc = "loop"]
    IN  IF n = MAX_RESULTS THEN advance
        ELSE IF n > 0 /\ n < MAX_RESULTS THEN advance
        ELSE IF ResultsLength(all) > 0 /\ empties >= MAX_EMPTY_RANGES(p.network)
             THEN [q EXCEPT !.pc = "returned"]
             ELSE [q EXCEPT !.pc = "loop"]

\* try-branch: fetchWithRetry returned `results` for the current window.
PagResults(p, results) ==
    LET n == ResultsLength(results)
        all == IF n > 0 THEN p.allResults \o results ELSE p.allResults
        empties == IF n > 0 THEN 0 ELSE p.consecutiveEmptyRanges + 1
        q == [p EXCEPT !.allResults = all,
                       !.consecutiveEmptyRanges = empties]
        advance == [q EXCEPT !.currentStart = CurrentEnd(p) + 1, !.pc = "loop"]
    IN  IF n = MAX_RESULTS THEN advance
        ELSE IF n > 0 /\ n < MAX_RESULTS THEN advance
        ELSE IF ResultsLength(all) > 0 /\ empties >= MAX_EMPTY_RANGES(p.network)
             THEN [q EXCEPT !.pc = "returned"]       \* break
             ELSE advance

\* Variant of PagError that absorbs every failure, the first window's too.
PagError_AlwaysSkip(p) ==
    [p EXCEPT !.currentStart = CurrentEnd(p) + 1, !.pc = "loop"]

\* Variant of PagError that asks for the failed window again.
PagError_Retry(p) ==
    IF ResultsLength(p.allResults) = 0 /\ p.attempt = 1
    THEN [p EXCEPT !.pc = "threw"]
    ELSE [p EXCEPT !.pc = "loop"]

\* catch-branch: fetchWithRetry threw for the current window.
PagError(p) ==
    IF ResultsLength(p.allResults) = 0 /\ p.attempt = 1
    THEN [p EXCEPT !.pc = "threw"]
    ELSE [p EXCEPT !.currentStart = CurrentEnd(p) + 1, !.pc = "loop"]

PagHandle(p, response) ==
    IF response.ok THEN PagResults(p, response.results) ELSE PagError(p)

(***************************************************************************)
(* The provider, as one paginator run sees it.                             *)
(***************************************************************************)
RawRecord(block, n) == [blockNumber |-> block, copies |-> n]

Threw == [ok |-> FALSE, results |-> <<>>]
Ok(results) == [ok |-> TRUE, results |-> results]

\* What the provider can answer for the window [s, e], the k-th of a run.
Responses(s, e, k) ==
    {Threw, Ok(<<>>)} \cup
    IF k <= HeadWindows
    THEN { Ok(<<RawRecord(s, 1)>>), Ok(<<RawRecord(s, 1), RawRecord(e, 1)>>),
           Ok(<<RawRecord(s, MAX_RESULTS)>>) }
    ELSE {}

(***************************************************************************)
(* fetchTransactionsPaginated run to completion against a provider that    *)
(* fails the requests whose index is in `failing` and otherwise answers    *)
(* with the records of `records` (ascending by block) inside the window.   *)
(* The result carries the final locals and, as an observer, the windows    *)
(* the catch branch skipped.                                               *)
(***************************************************************************)
InWindow(records, s, e) ==
    SelectSeq(records, LAMBDA r : s <= r.blockNumber /\ r.blockNumber <= e)

Api(failing, records, s, e, k) ==
    IF k \in failing THEN Threw ELSE Ok(InWindow(records, s, e))

RECURSIVE PagRun(_, _, _, _)
PagRun(p, skipped, failing, records) ==
    IF p.pc = "loop" /\ LoopCondition(p)
    THEN LET response == Api(failing, records, p.currentStart, CurrentEnd(p),
                             p.attempt + 1)
             next == PagHandle(PagEnter(p), response)
             sk == IF ~response.ok /\ next.pc = "loop"
                   THEN skipped \cup {<<p.currentStart, CurrentEnd(p)>>}
                   ELSE skipped
         IN  PagRun(next, sk, failing, records)
    ELSE [ run |-> IF p.pc = "loop" THEN PagEnter(p) ELSE p,
           skipped |-> skipped ]

fetchTransactionsPaginated(startBlock, endBlock, network, failing, records) ==
    PagRun(PagStart(network, startBlock, endBlock), {}, failing, records)

(***************************************************************************)
(* Amounts.  A raw value is a decimal string of arbitrary length; the      *)
(* model writes it as [m, e]: the digits of m followed by e zeros          *)
(* ("2500000" is [m |-> 25, e |-> 5]).  The source computes native and USD *)
(* amounts in floating point; the model computes in fixed point: native    *)
(* amounts in thousandths of a unit, prices in cents, USD values in        *)
(* thousandths of a cent, percentages in 10^-5 percent (rounded down).     *)
(* A value string that is not an integer literal has kind "malformed", the *)
(* empty or missing string has kind "empty".                               *)
(***************************************************************************)
Value(m, e) == [kind |-> "integer", m |-> m, e |-> e]

MalformedValue == [kind |-> "malformed", m |-> 0, e |-> 0]
EmptyValue == [kind |-> "empty", m |-> 0, e |-> 0]

\* `tx.value &&`: the string is present and not empty.
IsTruthy(value) == value.kind # "empty"

\* BigInt(value) throws a SyntaxError; BigInt("") is 0n.
BigIntThrows(value) == value.kind = "malformed"

\* BigInt(value) > BigInt(0)
IsPositive(value) == value.kind = "integer" /\ value.m > 0

(***************************************************************************)
(* The collectors: fetchEthereumTransactions / fetchHyperEVMTransactions   *)
(***************************************************************************)
ETHEREUM_ADDRESS == "0x4169447a424ec645f8a24dccfd8328f714dd5562"
HYPEREVM_ADDRESS == "0xbc0b9c63dc0581278d4b554af56858298bf2a9ec"

\* String.prototype.toLowerCase / toUpperCase on the spellings the model uses.
toLowerCase(s) ==
    CASE s = "0x4169447A424EC645F8A24DCCFD8328F714DD5562" -> ETHEREUM_ADDRESS
      [] s = "0xBC0B9C63DC0581278D4B554AF56858298BF2A9EC" -> HYPEREVM_ADDRESS
      [] s = "PURR" -> "purr"
      [] OTHER -> s

toUpperCase(s) ==
    CASE s = "usdc" -> "USDC"
      [] s = "weth" -> "WETH"
      [] s = "whype" -> "WHYPE"
      [] s = "eth" -> "ETH"
      [] s = "USD Coin" -> "USD COIN"
      [] s = "Wrapped Ether" -> "WRAPPED ETHER"
      [] s = "Wrapped HYPE" -> "WRAPPED HYPE"
      [] s = "Dai Stablecoin" -> "DAI STABLECOIN"
      [] s = "kHYPE" -> "KHYPE"
      [] s = "Kinetiq Staked HYPE" -> "KINETIQ STAKED HYPE"
      [] OTHER -> s

\* String.prototype.includes on upper-cased token names.
includes(name, part) ==
    CASE part = "WRAP" -> name \in {"WRAPPED ETHER", "WRAPPED HYPE"}
      [] part = "HYPE" -> name \in {"WRAPPED HYPE", "KINETIQ STAKED HYPE"}
      [] part = "timeout" -> name \in {"Request timeout"}
      [] OTHER -> FALSE

\* A result list written out record by record.
RECURSIVE Expanded(_)
Expanded(results) ==
    IF results = <<>> THEN <<>>
    ELSE LET r == Head(results)
         IN  IF r.copies <= 1
             THEN (IF r.copies = 1 THEN <<r>> ELSE <<>>) \o Expanded(Tail(results))
             ELSE <<[r EXCEPT !.copies = 1]>>
                    \o Expanded(<<[r EXCEPT !.copies = r.copies - 1]>> \o Tail(results))

\* Optional fields of a raw record are sequences of length 0 (absent) or 1.
OrElse(opt, default) == IF opt = <<>> THEN default ELSE opt[1]

\* The filter without its test of the recipient.
EthereumFilter_AnyAddress(tx) ==
    LET tokenSymbol == toUpperCase(tx.tokenSymbol)
        isUSDC == tokenSymbol = "USDC"
        isWETH == tokenSymbol = "WETH" \/ tokenSymbol = "WETHEREUM"
    IN  (isUSDC \/ isWETH) /\ IsTruthy(tx.value) /\ IsPositive(tx.value)

EthereumFilter(tx) ==
    LET isToFeeAddress ==
            tx.to # "" /\ toLowerCase(tx.to) = toLowerCase(ETHEREUM_ADDRESS)
        tokenSymbol == toUpperCase(tx.tokenSymbol)
        isUSDC == tokenSymbol = "USDC"
        isWETH == tokenSymbol = "WETH" \/ tokenSymbol = "WETHEREUM"
    IN  isToFeeAddress /\ (isUSDC \/ isWETH) /\ IsTruthy(tx.value)
            /\ IsPositive(tx.value)

\* The filter callback reaches BigInt(tx.value) (the && chain did not stop
\* before it) and BigInt throws.
EthereumFilterThrows(tx) ==
    LET isToFeeAddress ==
            tx.to # "" /\ toLowerCase(tx.to) = toLowerCase(ETHEREUM_ADDRESS)
        tokenSymbol == toUpperCase(tx.tokenSymbol)
        isUSDC == tokenSymbol = "USDC"
        isWETH == tokenSymbol = "WETH" \/ tokenSymbol = "WETHEREUM"
    IN  isToFeeAddress /\ (isUSDC \/ isWETH) /\ IsTruthy(tx.value)
            /\ BigIntThrows(tx.value)

EthereumMap(tx) ==
    LET upper == toUpperCase(tx.tokenSymbol)
        tokenSymbol == IF upper = "WETHEREUM" THEN "WETH" ELSE upper
    IN  [ hash |-> tx.hash,
          timestamp |-> tx.timeStamp * 1000,
          value |-> tx.value,
          tokenSymbol |-> tokenSymbol,
          tokenDecimal |->
              OrElse(tx.tokenDecimal, IF tokenSymbol = "USDC" THEN 6 ELSE 18),
          from |-> tx.from,
          to |-> tx.to,
          network |-> "ethereum",
          blockNumber |-> tx.blockNumber ]

HyperEVMFilter(tx) ==
    LET isToFeeAddress ==
            tx.to # "" /\ toLowerCase(tx.to) = toLowerCase(HYPEREVM_ADDRESS)
        tokenSymbol == toUpperCase(tx.tokenSymbol)
        tokenName == toUpperCase(tx.tokenName)
        isUSDC == tokenSymbol = "USDC"
        isWHYPE == \/ tokenSymbol = "WHYPE" \/ tokenSymbol = "WRHYPER"
                   \/ includes(tokenName, "WRAP") \/ includes(tokenName, "HYPE")
    IN  isToFeeAddress /\ (isUSDC \/ isWHYPE) /\ IsTruthy(tx.value)
            /\ IsPositive(tx.value)

HyperEVMFilterThrows(tx) ==
    LET isToFeeAddress ==
            tx.to # "" /\ toLowerCase(tx.to) = toLowerCase(HYPEREVM_ADDRESS)
        tokenSymbol == toUpperCase(tx.tokenSymbol)
        tokenName == toUpperCase(tx.tokenName)
        isUSDC == tokenSymbol = "USDC"
        isWHYPE == \/ tokenSymbol = "WHYPE" \/ tokenSymbol = "WRHYPER"
                   \/ includes(tokenName, "WRAP") \/ includes(tokenName, "HYPE")
    IN  isToFeeAddress /\ (isUSDC \/ isWHYPE) /\ IsTruthy(tx.value)
            /\ BigIntThrows(tx.value)

\* The map without the USDC retag.
HyperEVMMap_NoRetag(tx) ==
    LET upper == toUpperCase(tx.tokenSymbol)
        tokenSymbol ==
            IF upper = "WRHYPER" \/ includes(toUpperCase(tx.tokenName), "WRAP")
            THEN "WHYPE" ELSE upper
    IN  [ hash |-> tx.hash,
          timestamp |-> tx.timeStamp * 1000,
          value |-> tx.value,
          tokenSymbol |-> tokenSymbol,
          tokenDecimal |->
              OrElse(tx.tokenDecimal, IF tokenSymbol = "HUSDC" THEN 6 ELSE 18),
          from |-> tx.from,
          to |-> tx.to,
          network |-> "hyperevm",
          blockNumber |-> tx.blockNumber ]

HyperEVMMap(tx) ==
    LET upper == toUpperCase(tx.tokenSymbol)
        tokenSymbol ==
            IF upper = "USDC" THEN "HUSDC"
            ELSE IF upper = "WRHYPER" \/ includes(toUpperCase(tx.tokenName), "WRAP")
                 THEN "WHYPE" ELSE upper
    IN  [ hash |-> tx.hash,
          timestamp |-> tx.timeStamp * 1000,
          value |-> tx.value,
          tokenSymbol |-> tokenSymbol,
          tokenDecimal |->
              OrElse(tx.tokenDecimal, IF tokenSymbol = "HUSDC" THEN 6 ELSE 18),
          from |-> tx.from,
          to |-> tx.to,
          network |-> "hyperevm",
          blockNumber |-> tx.blockNumber ]

\* The collector's return value, with two observers: `broke` (the paginated
\* fetch threw and the outer catch answered) and `skipped` (windows skipped).
Collected(network, fetched) ==
    LET tokenResults == Expanded(fetched.run.allResults)
        filterThrows ==
            \E i \in DOMAIN tokenResults :
                IF network = "ethereum" THEN EthereumFilterThrows(tokenResults[i])
                ELSE HyperEVMFilterThrows(tokenResults[i])
        kept == IF network = "ethereum"
                THEN SelectSeq(tokenResults, EthereumFilter)
                ELSE SelectSeq(tokenResults, HyperEVMFilter)
        transactions ==
            [i \in 1..Len(kept) |->
                IF network = "ethereum" THEN EthereumMap(kept[i])
                ELSE HyperEVMMap(kept[i])]
    IN  IF fetched.run.pc = "threw" \/ filterThrows
        THEN [transactions |-> <<>>, broke |-> TRUE, skipped |-> {}]
        ELSE [transactions |-> transactions, broke |-> FALSE,
              skipped |-> fetched.skipped]

fetchEthereumTransactions(startBlock, failing, records) ==
    Collected("ethereum",
        fetchTransactionsPaginated(startBlock, TopBlock, "ethereum",
                                   failing, records))

fetchHyperEVMTransactions(startBlock, failing, records) ==
    Collected("hyperevm",
        fetchTransactionsPaginated(startBlock, TopBlock, "hyperevm",
                                   failing, records))

Collector(network, startBlock, failing, records) ==
    IF network = "ethereum"
    THEN fetchEthereumTransactions(startBlock, failing, records)
    ELSE fetchHyperEVMTransactions(startBlock, failing, records)

(***************************************************************************)
(* The cursor store (lib/last-processed.ts), server side.                  *)
(***************************************************************************)
Null == [null |-> TRUE]

getLastProcessedTransaction(storage, network) == storage[network]

\* The write that stores a new object holding the written network only.
updateLastProcessedTransaction_Overwrite(storage, network, blockNumber, timestamp, hash) ==
    [n \in DOMAIN storage |->
        IF n = network
        THEN [ network |-> network, blockNumber |-> blockNumber,
               timestamp |-> timestamp, hash |-> hash ]
        ELSE Null]

\* lastUpdated (the wall clock at the write) is not modelled.
updateLastProcessedTransaction(storage, network, blockNumber, timestamp, hash) ==
    [storage EXCEPT ![network] =
        [ network |-> network, blockNumber |-> blockNumber,
          timestamp |-> timestamp, hash |-> hash ]]

\* getStartBlock resuming at the cursor's own block.
getStartBlock_NoIncrement(storage, network) ==
    LET lastProcessed == getLastProcessedTransaction(storage, network)
    IN  IF lastProcessed = Null THEN 0 ELSE lastProcessed.blockNumber

getStartBlock(storage, network) ==
    LET lastProcessed == getLastProcessedTransaction(storage, network)
    IN  IF lastProcessed = Null THEN 0 ELSE lastProcessed.blockNumber + 1

\* reduce() without an initial value: the first element starts as `latest`.
RECURSIVE ReduceLatest(_, _)
ReduceLatest(latest, rest) ==
    IF rest = <<>> THEN latest
    ELSE LET current == Head(rest)
             step == IF current.blockNumber = 0 THEN latest
                     ELSE IF latest.blockNumber = 0 THEN current
                     ELSE IF current.blockNumber > latest.blockNumber
                          THEN current ELSE latest
         IN  ReduceLatest(step, Tail(rest))

\* Every Transaction of the model carries a blockNumber, so the filter on
\* `blockNumber !== undefined` keeps the whole list.
findLatestTransaction(transactions) ==
    IF transactions = <<>> THEN Null
    ELSE LET latest == ReduceLatest(Head(transactions), Tail(transactions))
         IN  IF latest.blockNumber = 0 THEN Null
             ELSE [ blockNumber |-> latest.blockNumber, hash |-> latest.hash,
                    timestamp |-> latest.timestamp ]

RECURSIVE Pow10(_)
Pow10(d) == IF d <= 0 THEN 1 ELSE 10 * Pow10(d - 1)

\* m * 10^p, rounded down
Scale(m, p) ==
    IF p >= 0 THEN m * Pow10(p)
    ELSE IF p >= -9 THEN m \div Pow10(-p) ELSE 0

\* parseTransactionValue: value / 10^decimals (whole part plus fraction).
\* Defined when BigInt(value) does not throw.
parseTransactionValue(value, decimals) == Scale(value.m, 3 + value.e - decimals)

\* getTokenPriceUSD as the price feed answers it in the model's runs: the
\* prices of the fallback table; 0 for a symbol in no table.
getTokenPriceUSD(tokenSymbol) ==
    LET normalizedSymbol == toUpperCase(tokenSymbol)
    IN  CASE normalizedSymbol = "WHYPE" -> 2786
          [] normalizedSymbol \in {"WETH", "ETH"} -> 318905
          [] normalizedSymbol \in {"USDC", "HUSDC", "USDT", "DAI"} -> 100
          [] OTHER -> 0

getMultipleTokenPrices(tokens) ==
    [token \in {toUpperCase(t) : t \in tokens} |-> getTokenPriceUSD(token)]

(***************************************************************************)
(* Period keys (date-fns format / startOfWeek / startOfMonth, with the     *)
(* server's zone taken as UTC).  Time is counted from 2025-10-22T00:00:00Z *)
(* (day 20383 of the Unix epoch), the day of the first fee.                *)
(***************************************************************************)
\* Days since 1970-01-01 to the civil date <<year, month, day>>.
CivilFromDays(days) ==
    LET z == days + 719468
        era == z \div 146097
        doe == z - era * 146097
        yoe == (doe - doe \div 1460 + doe \div 36524 - doe \div 146096) \div 365
        doy == doe - (365 * yoe + yoe \div 4 - yoe \div 100)
        mp == (5 * doy + 2) \div 153
        d == doy - (153 * mp + 2) \div 5 + 1
        m == IF mp < 10 THEN mp + 3 ELSE mp - 9
        y == yoe + era * 400 + (IF m <= 2 THEN 1 ELSE 0)
    IN  <<y, m, d>>

DayOf(timestamp) == 20383 + timestamp \div 86400000
\* 1970-01-01 was a Thursday; weeks start on Sunday.
startOfWeek(day) == day - ((day + 4) % 7)
dateStr(timestamp) == CivilFromDays(DayOf(timestamp))
weekStr(timestamp) == CivilFromDays(startOfWeek(DayOf(timestamp)))
monthStr(timestamp) == SubSeq(CivilFromDays(DayOf(timestamp)), 1, 2)

(***************************************************************************)
(* aggregateFees (lib/aggregate.ts)                                        *)
(***************************************************************************)
FeeCategories == {"loan_usdc", "loan_weth", "sales_usdc", "sales_weth", "uncategorized"}

createEmptyPeriodData ==
    [ total |-> 0, totalUSD |-> 0, currencies |-> <<>>, currenciesUSD |-> <<>>,
      byCategory |-> [c \in FeeCategories |-> [total |-> 0, totalUSD |-> 0]] ]

\* map[key] = (map[key] || 0) + delta
AddTo(map, key, delta) ==
    [k \in DOMAIN map \cup {key} |->
        IF k = key THEN (IF k \in DOMAIN map THEN map[k] ELSE 0) + delta
        ELSE map[k]]

\* The update that leaves the per-currency USD map of the period alone.
AddToPeriod_NoCurrenciesUSD(periods, key, displayCurrency, feeCategory, value, valueUSD) ==
    LET period == IF key \in DOMAIN periods THEN periods[key]
                  ELSE createEmptyPeriodData
        updated ==
            [ total |-> period.total + value,
              totalUSD |-> period.totalUSD + valueUSD,
              currencies |-> AddTo(period.currencies, displayCurrency, value),
              currenciesUSD |-> period.currenciesUSD,
              byCategory |-> [period.byCategory EXCEPT ![feeCategory] =
                  [ total |-> @.total + value,
                    totalUSD |-> @.totalUSD + valueUSD ]] ]
    IN  [k \in DOMAIN periods \cup {key} |->
            IF k = key THEN updated ELSE periods[k]]

AddToPeriod(periods, key, displayCurrency, feeCategory, value, valueUSD) ==
    LET period == IF key \in DOMAIN periods THEN periods[key]
                  ELSE createEmptyPeriodData
        updated ==
            [ total |-> period.total + value,
              totalUSD |-> period.totalUSD + valueUSD,
              currencies |-> AddTo(period.currencies, displayCurrency, value),
              currenciesUSD |->
                  AddTo(period.currenciesUSD, displayCurrency, valueUSD),
              byCategory |-> [period.byCategory EXCEPT ![feeCategory] =
                  [ total |-> @.total + value,
                    totalUSD |-> @.totalUSD + valueUSD ]] ]
    IN  [k \in DOMAIN periods \cup {key} |->
            IF k = key THEN updated ELSE periods[k]]

PricingSymbol(tx) ==
    LET symbol == toUpperCase(tx.tokenSymbol)
    IN  IF symbol = "ETH" THEN "WETH" ELSE symbol

AggregateStart ==
    [ daily |-> <<>>, weekly |-> <<>>, monthly |-> <<>>,
      currencyTotals |-> <<>>, currencyTotalsUSD |-> <<>>,
      categoryTotals |->
          [c \in FeeCategories |-> [total |-> 0, totalUSD |-> 0, count |-> 0]] ]

\* The body that also returns early when the currency has no price.
AggregateOne_SkipUnpriced(acc, tx, prices) ==
    LET displayCurrency == toUpperCase(tx.tokenSymbol)
        currency == PricingSymbol(tx)
        value == parseTransactionValue(tx.value,
                     IF tx.tokenDecimal = 0 THEN 18 ELSE tx.tokenDecimal)
        price == IF currency \in DOMAIN prices THEN prices[currency] ELSE 0
        valueUSD == value * price
        feeCategory ==
            IF displayCurrency = "USDC" THEN "sales_usdc"
            ELSE IF displayCurrency = "WETH" \/ displayCurrency = "ETH"
                 THEN "sales_weth" ELSE "uncategorized"
    IN  IF currency = "" \/ price = 0 THEN acc
        ELSE [ daily |-> AddToPeriod(acc.daily, dateStr(tx.timestamp),
                             displayCurrency, feeCategory, value, valueUSD),
               weekly |-> AddToPeriod(acc.weekly, weekStr(tx.timestamp),
                             displayCurrency, feeCategory, value, valueUSD),
               monthly |-> AddToPeriod(acc.monthly, monthStr(tx.timestamp),
                             displayCurrency, feeCategory, value, valueUSD),
               currencyTotals |->
                   AddTo(acc.currencyTotals, displayCurrency, value),
               currencyTotalsUSD |->
                   AddTo(acc.currencyTotalsUSD, displayCurrency, valueUSD),
               categoryTotals |-> [acc.categoryTotals EXCEPT ![feeCategory] =
                   [ total |-> @.total + value,
                     totalUSD |-> @.totalUSD + valueUSD,
                     count |-> @.count + 1 ]] ]

\* The body of transactions.forEach for one transaction.
AggregateOne(acc, tx, prices) ==
    LET displayCurrency == toUpperCase(tx.tokenSymbol)
        currency == PricingSymbol(tx)
        value == parseTransactionValue(tx.value,
                     IF tx.tokenDecimal = 0 THEN 18 ELSE tx.tokenDecimal)
        price == IF currency \in DOMAIN prices THEN prices[currency] ELSE 0
        valueUSD == value * price
        feeCategory ==
            IF displayCurrency = "USDC" THEN "sales_usdc"
            ELSE IF displayCurrency = "WETH" \/ displayCurrency = "ETH"
                 THEN "sales_weth" ELSE "uncategorized"
    IN  IF currency = "" THEN acc
        ELSE [ daily |-> AddToPeriod(acc.daily, dateStr(tx.timestamp),
                             displayCurrency, feeCategory, value, valueUSD),
               weekly |-> AddToPeriod(acc.weekly, weekStr(tx.timestamp),
                             displayCurrency, feeCategory, value, valueUSD),
               monthly |-> AddToPeriod(acc.monthly, monthStr(tx.timestamp),
                             displayCurrency, feeCategory, value, valueUSD),
               currencyTotals |->
                   AddTo(acc.currencyTotals, displayCurrency, value),
               currencyTotalsUSD |->
                   AddTo(acc.currencyTotalsUSD, displayCurrency, valueUSD),
               categoryTotals |-> [acc.categoryTotals EXCEPT ![feeCategory] =
                   [ total |-> @.total + value,
                     totalUSD |-> @.totalUSD + valueUSD,
                     count |-> @.count + 1 ]] ]

RECURSIVE AggregateAll(_, _, _)
AggregateAll(acc, transactions, prices) ==
    IF transactions = <<>> THEN acc
    ELSE AggregateAll(AggregateOne(acc, Head(transactions), prices),
                      Tail(transactions), prices)

RECURSIVE SumOver(_, _)
SumOver(map, keys) ==
    IF keys = {} THEN 0
    ELSE LET k == CHOOSE x \in keys : TRUE
         IN  map[k] + SumOver(map, keys \ {k})

\* Digits of a percentage kept after the decimal point.
PercentDigits == 5

\* floor(x * 10^digits / whole) for 0 <= x <= whole, by long division.
RECURSIVE LongDiv(_, _, _, _)
LongDiv(quotient, remainder, whole, digits) ==
    IF digits = 0 THEN quotient
    ELSE LongDiv(quotient * 10 + (remainder * 10) \div whole,
                 (remainder * 10) % whole, whole, digits - 1)

\* whole > 0 ? (part / whole) * 100 : 0
Percentage(part, whole) ==
    IF whole > 0
    THEN LongDiv(part \div whole, part % whole, whole, PercentDigits + 2)
    ELSE 0

\* The promise of aggregateFees rejects.
Rejected == [rejected |-> TRUE]

aggregateFees(transactions) ==
    LET throws == \E i \in DOMAIN transactions :
                      /\ PricingSymbol(transactions[i]) # ""
                      /\ BigIntThrows(transactions[i].value)
        currencies ==
            {PricingSymbol(transactions[i]) : i \in DOMAIN transactions} \ {""}
        prices == getMultipleTokenPrices(currencies)
        acc == AggregateAll(AggregateStart, transactions, prices)
        totalAllCurrenciesUSD ==
            SumOver(acc.currencyTotalsUSD, DOMAIN acc.currencyTotalsUSD)
        totalCategoriesUSD ==
            SumOver([c \in FeeCategories |-> acc.categoryTotals[c].totalUSD],
                    FeeCategories)
    IN  IF throws THEN Rejected ELSE
        [ daily |-> acc.daily,
          weekly |-> acc.weekly,
          monthly |-> acc.monthly,
          currencyBreakdown |->
              [c \in DOMAIN acc.currencyTotals |->
                  [ total |-> acc.currencyTotals[c],
                    totalUSD |-> acc.currencyTotalsUSD[c],
                    percentage |-> Percentage(acc.currencyTotalsUSD[c],
                                              totalAllCurrenciesUSD) ]],
          categoryBreakdown |->
              [c \in FeeCategories \ {"uncategorized"} |->
                  [ total |-> acc.categoryTotals[c].total,
                    totalUSD |-> acc.categoryTotals[c].totalUSD,
                    count |-> acc.categoryTotals[c].count,
                    percentage |-> Percentage(acc.categoryTotals[c].totalUSD,
                                              totalCategoriesUSD) ]] ]

(***************************************************************************)
(* recentTransactions of the response (app/api/fees/route.ts)              *)
(***************************************************************************)
RecentLimit == 20

\* [...allTransactions].sort((a, b) => b.timestamp - a.timestamp): newest
\* first, equal timestamps in their order of arrival.
RECURSIVE SortedNewestFirst(_)
SortedNewestFirst(transactions) ==
    IF transactions = <<>> THEN <<>>
    ELSE LET tx == Head(transactions)
             rest == SortedNewestFirst(Tail(transactions))
         IN  SelectSeq(rest, LAMBDA other : other.timestamp > tx.timestamp)
                 \o <<tx>> \o
             SelectSeq(rest, LAMBDA other : other.timestamp <= tx.timestamp)

recentTransactions(allTransactions, prices) ==
    LET sorted == SortedNewestFirst(allTransactions)
        sliced == SubSeq(sorted, 1, Min(Len(sorted), RecentLimit))
    IN  [i \in DOMAIN sliced |->
            LET tx == sliced[i]
                currency == toUpperCase(tx.tokenSymbol)
                tokenDecimal == IF tx.tokenDecimal = 0 THEN 18
                                ELSE tx.tokenDecimal
                value == parseTransactionValue(tx.value, tokenDecimal)
                price == IF currency \in DOMAIN prices THEN prices[currency]
                         ELSE 0
            IN  [ hash |-> tx.hash, timestamp |-> tx.timestamp,
                  tokenSymbol |-> tx.tokenSymbol, value |-> tx.value,
                  tokenDecimal |-> tokenDecimal, from |-> tx.from,
                  to |-> tx.to, network |-> tx.network,
                  usdValue |-> value * price ]]

(***************************************************************************)
(* Specification SpecPag: one run of fetchTransactionsPaginated, a step    *)
(* per suspension point.                                                   *)
(***************************************************************************)
StartBlocks == {0, 250000}

NoResponse == [ok |-> TRUE, results |-> <<>>, none |-> TRUE]

InitPag ==
    /\ \E network \in Networks, startBlock \in StartBlocks :
           pag = PagStart(network, startBlock, MaxEndBlock)
    /\ inflight = {}
    /\ lastResponse = NoResponse
    /\ requested = <<>>
    /\ serverStorage = [n \in Networks |-> Null]
    /\ chain = [n \in Networks |-> 0]
    /\ queries = <<>>
    /\ started = 0
    /\ retry = Unused
    /\ oracle = Unused
    /\ budget = Unused
    /\ collect = Unused
    /\ agg = Unused

\* Loop header: issue the request for the next window.
Request ==
    /\ pag.pc = "loop"
    /\ LoopCondition(pag)
    /\ pag' = PagEnter(pag)
    /\ inflight' = inflight \cup {<<pag.currentStart, CurrentEnd(pag)>>}
    /\ requested' = Append(requested, <<pag.currentStart, CurrentEnd(pag)>>)
    /\ UNCHANGED <<lastResponse, queryVars, auxVars>>

\* Loop header: the loop condition fails, allResults is returned.
Return ==
    /\ pag.pc = "loop"
    /\ ~LoopCondition(pag)
    /\ pag' = PagEnter(pag)
    /\ UNCHANGED <<inflight, lastResponse, requested, queryVars, auxVars>>

\* The awaited fetchWithRetry settles.
Respond ==
    /\ pag.pc = "fetching"
    /\ \E response \in Responses(pag.currentStart, CurrentEnd(pag), pag.attempt) :
           /\ pag' = PagHandle(pag, response)
           /\ lastResponse' = response
    /\ inflight' = inflight \ {<<pag.currentStart, CurrentEnd(pag)>>}
    /\ UNCHANGED <<requested, queryVars, auxVars>>

NextPag == Request \/ Return \/ Respond

SpecPag == InitPag /\ [][NextPag]_vars

\* The same run when every awaited fetchWithRetry settles and the loop is
\* scheduled: a step of the run that can be taken is eventually taken.
SpecPagFair == InitPag /\ [][NextPag]_vars /\ WF_vars(NextPag)

(***************************************************************************)
(* The provider's chains.  Transfer i of a network sits in the middle of   *)
(* the i-th block range from genesis; a token transfer is the effect of a  *)
(* transaction, so none sits in block 0.  Ethereum's first transfer is of  *)
(* another token, HyperEVM's third one leaves the fee address.             *)
(***************************************************************************)
ChainRecord(network, i) ==
    LET eth == network = "ethereum"
        kind == i % 3
        outgoing == ~eth /\ kind = 0
        tokenSymbol == IF eth
                       THEN (CASE kind = 1 -> "DAI" [] kind = 2 -> "WETH"
                               [] OTHER -> "USDC")
                       ELSE (IF kind = 1 THEN "USDC" ELSE "WHYPE")
        tokenName == CASE tokenSymbol = "DAI" -> "Dai Stablecoin"
                       [] tokenSymbol = "WETH" -> "Wrapped Ether"
                       [] tokenSymbol = "USDC" -> "USD Coin"
                       [] OTHER -> "Wrapped HYPE"
    IN  [ blockNumber |-> (2 * i - 1) * (BLOCK_RANGE(network) \div 2),
          timeStamp |-> (i - 1) * 432000 + (IF eth THEN 3600 ELSE 7200),
          hash |-> <<network, i>>,
          from |-> IF outgoing THEN HYPEREVM_ADDRESS ELSE "0xpayer",
          to |-> IF eth THEN ETHEREUM_ADDRESS
                 ELSE IF outgoing THEN "0xpayee" ELSE HYPEREVM_ADDRESS,
          tokenSymbol |-> tokenSymbol,
          tokenName |-> tokenName,
          tokenDecimal |-> IF tokenSymbol = "USDC" THEN <<6>> ELSE <<18>>,
          value |-> IF tokenSymbol = "USDC" THEN Value(25 * i, 5)
                    ELSE Value(i, 16),
          copies |-> 1 ]

ProviderRecords(network, height) ==
    [i \in 1..height |-> ChainRecord(network, i)]

(***************************************************************************)
(* GET /api/fees (app/api/fees/route.ts), the live branch: demo = false    *)
(* and no CSV export on disk.                                              *)
(***************************************************************************)
QueryIds == 1..MaxConcurrent

\* The requests of one collector run that the provider fails.
Failures == {{}} \cup {{k} : k \in 1..FailWindows}

\* The query string: fullRefresh and incremental.
QueryFlags ==
    { [fullRefresh |-> FALSE, incrementalParam |-> "absent"],
      [fullRefresh |-> TRUE, incrementalParam |-> "absent"],
      [fullRefresh |-> FALSE, incrementalParam |-> "true"],
      [fullRefresh |-> FALSE, incrementalParam |-> "false"] }

NoReturn == [transactions |-> <<>>, broke |-> FALSE, skipped |-> {}]

IdleQuery ==
    [ pc |-> "idle",
      fullRefresh |-> FALSE, incrementalParam |-> "absent",
      incremental |-> FALSE,
      startBlock |-> [n \in Networks |-> 0],
      collector |-> [n \in Networks |-> "idle"],   \* the collector's promise
      settled |-> [n \in Networks |-> "pending"],  \* fetchWithTimeout's promise
      value |-> [n \in Networks |-> <<>>],         \* its value when fulfilled
      returned |-> [n \in Networks |-> NoReturn],  \* observer: the collector's return
      wrote |-> [n \in Networks |-> Null],         \* observer: cursor this query wrote
      allTransactions |-> <<>>,
      response |-> Null ]

hasLastProcessed(storage) ==
    \/ getLastProcessedTransaction(storage, "ethereum") # Null
    \/ getLastProcessedTransaction(storage, "hyperevm") # Null

Incremental(storage, flags) ==
    IF flags.fullRefresh THEN FALSE
    ELSE \/ flags.incrementalParam = "true"
         \/ (flags.incrementalParam # "false" /\ hasLastProcessed(storage))

\* Every query fetched from block 0, the stored cursors ignored.
StartBlockFor_FromGenesis(storage, flags, network) ==
    IF flags.fullRefresh THEN 0
    ELSE IF Incremental(storage, flags) /\ hasLastProcessed(storage)
         THEN 0 ELSE 0

StartBlockFor(storage, flags, network) ==
    IF flags.fullRefresh THEN 0
    ELSE IF Incremental(storage, flags) /\ hasLastProcessed(storage)
         THEN getStartBlock(storage, network) ELSE 0

\* The collector's list taken whenever it arrives, the race's verdict ignored.
SettledValue_Late(query, network) ==
    IF query.collector[network] = "returned"
    THEN query.returned[network].transactions ELSE <<>>

\* const xTxs = xResult.status === 'fulfilled' ? xResult.value : []
SettledValue(query, network) ==
    IF query.settled[network] = "fulfilled" THEN query.value[network] ELSE <<>>

\* Promise.all in place of Promise.allSettled: one failure loses both lists.
AllTransactions_AllOrNothing(query) ==
    IF \A n \in Networks : query.settled[n] = "fulfilled"
    THEN SettledValue(query, "ethereum") \o SettledValue(query, "hyperevm")
    ELSE <<>>

AllTransactions(query) ==
    SettledValue(query, "ethereum") \o SettledValue(query, "hyperevm")

\* "Update last processed transactions if we got new data"
UpdateLastProcessed(storage, network, transactions) ==
    IF Len(transactions) > 0
    THEN LET latest == findLatestTransaction(transactions)
         IN  IF latest # Null
             THEN updateLastProcessedTransaction(storage, network,
                      latest.blockNumber, latest.timestamp, latest.hash)
             ELSE storage
    ELSE storage

\* The message fetchWithTimeout rejects with.
TimedOutMessage == "API request timed out after"

\* The answer when both lists are empty.
NoTransactionsResponse(query) ==
    LET hasTimeout == \E n \in Networks :
            query.settled[n] = "rejected" /\ includes(TimedOutMessage, "timeout")
    IN  IF hasTimeout
        THEN [status |-> 504, success |-> FALSE, error |-> "Request Timeout"]
        ELSE [status |-> 500, success |-> FALSE,
              error |-> "Failed to fetch fee data"]

EarlyTimeoutResponse ==
    [status |-> 504, success |-> FALSE, error |-> "Request Timeout"]

\* The outer catch of GET.
FailedResponse ==
    [status |-> 500, success |-> FALSE, error |-> "Failed to fetch fee data"]

SuccessResponse(allTransactions, storage) ==
    IF aggregateFees(allTransactions) = Rejected THEN FailedResponse ELSE
    [ status |-> 200, success |-> TRUE,
      data |-> aggregateFees(allTransactions),
      stats |-> [ totalTransactions |-> Len(allTransactions),
                  ethereumTransactions |-> Len(SelectSeq(allTransactions,
                      LAMBDA tx : tx.network = "ethereum")),
                  hyperevmTransactions |-> Len(SelectSeq(allTransactions,
                      LAMBDA tx : tx.network = "hyperevm")) ],
      lastProcessed |-> storage ]

InitQuery ==
    /\ serverStorage = [n \in Networks |-> Null]
    /\ chain = [n \in Networks |-> 0]
    /\ queries = [q \in QueryIds |-> IdleQuery]
    /\ started = 0
    /\ retry = Unused
    /\ oracle = Unused
    /\ budget = Unused
    /\ collect = Unused
    /\ agg = Unused
    /\ pag = Unused
    /\ inflight = {}
    /\ lastResponse = NoResponse
    /\ requested = <<>>

\* A transfer to or from the fee address is mined.
ChainGrows(n) ==
    /\ chain[n] < MaxTransfers
    /\ chain' = [chain EXCEPT ![n] = @ + 1]
    /\ UNCHANGED <<serverStorage, queries, started, pagVars, auxVars>>

SlotFree(q) ==
    /\ queries[q].pc \in {"idle", "done"}
    /\ \A n \in Networks : queries[q].collector[n] # "running"

\* A live query arrives with enough of its time budget left: it reads the
\* cursors, picks the start blocks and calls both collectors.
QStart(q) ==
    /\ started < MaxQueries
    /\ SlotFree(q)
    /\ \E flags \in QueryFlags :
           queries' = [queries EXCEPT ![q] =
               [IdleQuery EXCEPT
                   !.pc = "fetching",
                   !.fullRefresh = flags.fullRefresh,
                   !.incrementalParam = flags.incrementalParam,
                   !.incremental = Incremental(serverStorage, flags),
                   !.startBlock = [n \in Networks |->
                                      StartBlockFor(serverStorage, flags, n)],
                   !.collector = [n \in Networks |-> "running"] ]]
    /\ started' = started + 1
    /\ UNCHANGED <<serverStorage, chain, pagVars, auxVars>>

\* A live query arrives with less than 10 s of the budget left: early 504.
QRefuse(q) ==
    /\ started < MaxQueries
    /\ SlotFree(q)
    /\ \E flags \in QueryFlags :
           queries' = [queries EXCEPT ![q] =
               [IdleQuery EXCEPT
                   !.pc = "done",
                   !.fullRefresh = flags.fullRefresh,
                   !.incrementalParam = flags.incrementalParam,
                   !.incremental = Incremental(serverStorage, flags),
                   !.startBlock = [n \in Networks |->
                                      StartBlockFor(serverStorage, flags, n)],
                   !.response = EarlyTimeoutResponse ]]
    /\ started' = started + 1
    /\ UNCHANGED <<serverStorage, chain, pagVars, auxVars>>

\* A collector's promise resolves (it never rejects: its outer catch returns
\* []).  fetchWithTimeout's race takes the value unless it already rejected.
CollectorReturns(q, n) ==
    /\ queries[q].collector[n] = "running"
    /\ \E failing \in Failures :
           LET out == Collector(n, queries[q].startBlock[n], failing,
                                ProviderRecords(n, chain[n]))
               won == queries[q].settled[n] = "pending"
           IN  queries' = [queries EXCEPT
                   ![q].collector[n] = "returned",
                   ![q].returned[n] = out,
                   ![q].settled[n] = IF won THEN "fulfilled" ELSE @,
                   ![q].value[n] = IF won THEN out.transactions ELSE @ ]
    /\ UNCHANGED <<serverStorage, chain, started, pagVars, auxVars>>

\* fetchWithTimeout's timer fires before the collector returned.
TimesOut(q, n) ==
    /\ queries[q].pc = "fetching"
    /\ queries[q].settled[n] = "pending"
    /\ queries' = [queries EXCEPT ![q].settled[n] = "rejected"]
    /\ UNCHANGED <<serverStorage, chain, started, pagVars, auxVars>>

\* Promise.allSettled resolves: the cursors are updated, the lists merged,
\* and either the error answer is given or aggregation starts.
QSettle(q) ==
    LET query == queries[q]
        ethereumTxs == SettledValue(query, "ethereum")
        hyperevmTxs == SettledValue(query, "hyperevm")
        afterEthereum == UpdateLastProcessed(serverStorage, "ethereum", ethereumTxs)
        afterHyperEVM == UpdateLastProcessed(afterEthereum, "hyperevm", hyperevmTxs)
        allTransactions == AllTransactions(query)
        wrote == [n \in Networks |->
                    IF Len(SettledValue(query, n)) > 0
                       /\ findLatestTransaction(SettledValue(query, n)) # Null
                    THEN afterHyperEVM[n] ELSE Null]
    IN  /\ query.pc = "fetching"
        /\ \A n \in Networks : query.settled[n] # "pending"
        /\ serverStorage' = afterHyperEVM
        /\ queries' = [queries EXCEPT ![q] =
               IF Len(allTransactions) = 0
               THEN [query EXCEPT !.pc = "done", !.wrote = wrote,
                                  !.response = NoTransactionsResponse(query)]
               ELSE [query EXCEPT !.pc = "aggregating", !.wrote = wrote,
                                  !.allTransactions = allTransactions]]
        /\ UNCHANGED <<chain, started, pagVars, auxVars>>

\* Aggregation and the price lookups are done: the report is answered.
QRespond(q) ==
    /\ queries[q].pc = "aggregating"
    /\ queries' = [queries EXCEPT
           ![q].pc = "done",
           ![q].response = SuccessResponse(queries[q].allTransactions,
                                           serverStorage)]
    /\ UNCHANGED <<serverStorage, chain, started, pagVars, auxVars>>

NextQuery ==
    \/ \E n \in Networks : ChainGrows(n)
    \/ \E q \in QueryIds : QStart(q)
    \/ \E q \in QueryIds : QRefuse(q)
    \/ \E q \in QueryIds, n \in Networks : CollectorReturns(q, n)
    \/ \E q \in QueryIds, n \in Networks : TimesOut(q, n)
    \/ \E q \in QueryIds : QSettle(q)
    \/ \E q \in QueryIds : QRespond(q)

SpecQuery == InitQuery /\ [][NextQuery]_vars

(***************************************************************************)
(* Specification SpecRetry: one call of fetchWithRetry, a step per         *)
(* suspension point.  Two sources define the function: lib/blockchain.ts   *)
(* (the one the collectors of the pipeline call, with a per-attempt timer) *)
(* and a second client (src/unnamed/part_001) without a timer.             *)
(***************************************************************************)
RetryModules == {"lib/blockchain", "part_001"}

\* The paginator passes retries = 2; the parameter's default is 3.
RetryCounts == {2, 3}

\* Provider answers with HTTP 200, as parsed JSON.  `result` is an array
\* (kind "array", its items) or a string (kind "string", its text); status
\* and message are "" when the field is missing.
Envelope(status, message, kind, items, text) ==
    [ status |-> status, message |-> message,
      kind |-> kind, items |-> items, text |-> text ]

Envelopes ==
    { Envelope("1", "OK", "array", <<RawRecord(1, 1)>>, ""),
      Envelope("0", "No transactions found", "array", <<>>, ""),
      Envelope("0", "NOTOK", "string", <<>>, "Max rate limit reached"),
      Envelope("0", "NOTOK", "string", <<>>, "deprecated V1 endpoint"),
      Envelope("0", "NOTOK", "array", <<RawRecord(1, 1)>>, ""),
      Envelope("", "", "none", <<>>, "") }

NoEnvelope == Envelope("-", "-", "none", <<>>, "")

RetryCall(module, retries) ==
    [ module |-> module, retries |-> retries,
      i |-> 0, pc |-> "attempt",
      timer |-> FALSE,           \* timeoutId is pending
      deadline |-> FALSE,        \* requestTimeout ms have passed in this attempt
      envelope |-> NoEnvelope,   \* observer: the last body parsed
      log |-> <<>>,              \* observer: how each attempt ended
      waited |-> <<>>,           \* observer: the backoff delays, in ms
      result |-> <<>> ]

\* The catch block: rethrow on the last attempt, else wait 1000 * (i + 1) ms.
RetryCatch(r, outcome) ==
    IF r.i = r.retries - 1
    THEN [r EXCEPT !.pc = "threw", !.timer = FALSE,
                   !.log = Append(@, outcome)]
    ELSE [r EXCEPT !.pc = "backoff", !.timer = FALSE,
                   !.log = Append(@, outcome),
                   !.waited = Append(@, 1000 * (r.i + 1))]

RetryReturn(r, envelope, results) ==
    [r EXCEPT !.pc = "returned", !.envelope = envelope,
              !.log = Append(@, "returned"), !.result = results]

\* The status checks after `await response.json()`.
RetryParsed(r, envelope) ==
    IF r.module = "lib/blockchain"
    THEN IF envelope.status = "1" /\ envelope.kind = "array"
         THEN RetryReturn(r, envelope, envelope.items)
         ELSE IF envelope.status = "0" /\ envelope.message # ""
              THEN IF envelope.kind = "array" /\ Len(envelope.items) > 0
                   THEN RetryReturn(r, envelope, envelope.items)
                   ELSE RetryReturn(r, envelope, <<>>)
              ELSE RetryReturn(r, envelope, <<>>)
    ELSE IF envelope.status = "0"
         THEN IF envelope.message = "No transactions found"
              THEN RetryReturn(r, envelope, <<>>)
              ELSE RetryCatch([r EXCEPT !.envelope = envelope], "envelope")
         ELSE RetryReturn(r, envelope,
                  IF envelope.kind = "array" THEN envelope.items ELSE <<>>)

\* The `!response.ok` branch.
RetryNotOk(r) ==
    IF r.module = "lib/blockchain"
    THEN IF r.i = r.retries - 1
         THEN RetryCatch(r, "http")
         ELSE [r EXCEPT !.i = @ + 1, !.pc = "attempt", !.timer = FALSE,
                        !.log = Append(@, "http")]      \* continue
    ELSE RetryCatch(r, "http")

InitRetry ==
    /\ retry \in {RetryCall(m, n) : m \in RetryModules, n \in RetryCounts}
    /\ oracle = Unused
    /\ budget = Unused
    /\ collect = Unused
    /\ agg = Unused
    /\ pag = Unused
    /\ inflight = {}
    /\ lastResponse = NoResponse
    /\ requested = <<>>
    /\ serverStorage = [n \in Networks |-> Null]
    /\ chain = [n \in Networks |-> 0]
    /\ queries = <<>>
    /\ started = 0

Others == <<pagVars, queryVars, collect, agg, oracle, budget>>

\* An iteration starts: the timer is set (lib/blockchain) and fetch is called.
AttemptStarts ==
    /\ retry.pc = "attempt"
    /\ retry.i < retry.retries
    /\ retry' = [retry EXCEPT !.pc = "fetch",
                              !.timer = (retry.module = "lib/blockchain"),
                              !.deadline = FALSE]
    /\ UNCHANGED Others

\* fetch rejects: the connection failed.
FetchRejects ==
    /\ retry.pc = "fetch"
    /\ retry' = RetryCatch(retry, "transport")
    /\ UNCHANGED Others

\* The timer fires while fetch is pending: controller.abort() rejects it.
TimerAborts ==
    /\ retry.pc = "fetch"
    /\ retry.timer
    /\ retry' = RetryCatch([retry EXCEPT !.deadline = TRUE], "aborted")
    /\ UNCHANGED Others

\* The response headers arrive: clearTimeout, then the `ok` test.
FetchResponds ==
    /\ retry.pc = "fetch"
    /\ \E ok \in BOOLEAN :
           retry' = IF ok THEN [retry EXCEPT !.pc = "body", !.timer = FALSE]
                    ELSE RetryNotOk(retry)
    /\ UNCHANGED Others

\* requestTimeout ms after the attempt began, with the body still being read:
\* the timer was cleared, nothing fires.
DeadlinePasses ==
    /\ retry.module = "lib/blockchain"
    /\ retry.pc = "body"
    /\ ~retry.timer
    /\ ~retry.deadline
    /\ retry' = [retry EXCEPT !.deadline = TRUE]
    /\ UNCHANGED Others

\* response.json() resolves.
BodyParsed ==
    /\ retry.pc = "body"
    /\ \E envelope \in Envelopes : retry' = RetryParsed(retry, envelope)
    /\ UNCHANGED Others

\* response.json() rejects: the body is not JSON.
BodyInvalid ==
    /\ retry.pc = "body"
    /\ retry' = RetryCatch(retry, "json")
    /\ UNCHANGED Others

\* The backoff wait is over: next iteration.
BackoffEnds ==
    /\ retry.pc = "backoff"
    /\ retry' = [retry EXCEPT !.i = @ + 1, !.pc = "attempt"]
    /\ UNCHANGED Others

NextRetry ==
    \/ AttemptStarts
    \/ FetchRejects
    \/ TimerAborts
    \/ FetchResponds
    \/ DeadlinePasses
    \/ BodyParsed
    \/ BodyInvalid
    \/ BackoffEnds

SpecRetry == InitRetry /\ [][NextRetry]_vars

(***************************************************************************)
(* The classifier (lib/transaction-classifier.ts)                          *)
(***************************************************************************)
LOAN_METHODS ==
    { "emit loan", "repay loan", "refinance full", "refinance tranche",
      "refinance", "smart migrate" }

SALES_METHODS == {"buy", "sell", "execute sell"}

\* method.toLowerCase().trim()
MethodNormalized(method) ==
    CASE method = "Repay Loan" -> "repay loan"
      [] method = "Refinance Full" -> "refinance full"
      [] method = "Buy" -> "buy"
      [] method = "Execute Sell" -> "execute sell"
      [] method = "Transfer" -> "transfer"
      [] OTHER -> method

\* String.prototype.includes among the method names of the model.
MethodIncludes(method, part) ==
    \/ method = part
    \/ part = "refinance" /\ method \in {"refinance full", "refinance tranche"}
    \/ part = "sell" /\ method = "execute sell"

classifyTransactionByMethod(transaction) ==
    IF transaction.method = ""
    THEN IF transaction.isInternalETH THEN "sales" ELSE "unknown"
    ELSE LET method == MethodNormalized(transaction.method)
         IN  IF \E loanMethod \in LOAN_METHODS : MethodIncludes(method, loanMethod)
             THEN "loan"
             ELSE IF \E salesMethod \in SALES_METHODS :
                         MethodIncludes(method, salesMethod)
                  THEN "sales"
                  ELSE IF transaction.isInternalETH THEN "sales" ELSE "unknown"

\* Called by classifyTransactions with transactionType already set.
getFeeCategory(transaction, transactionType) ==
    LET tokenSymbol == toUpperCase(transaction.tokenSymbol)
        normalizedToken ==
            IF tokenSymbol \in {"ETH", "WETH", "WHYPE"} THEN "WETH"
            ELSE IF tokenSymbol \in {"USDC", "HUSDC"} THEN "USDC"
            ELSE tokenSymbol
    IN  IF transaction.isInternalETH THEN "sales_weth"
        ELSE IF transactionType = "loan"
             THEN (IF normalizedToken = "USDC" THEN "loan_usdc" ELSE "loan_weth")
             ELSE IF transactionType = "sales"
                  THEN (IF normalizedToken = "USDC" THEN "sales_usdc"
                        ELSE "sales_weth")
                  ELSE "uncategorized"

classifyTransactions(transactions) ==
    [i \in DOMAIN transactions |->
        LET transaction == transactions[i]
            transactionType == classifyTransactionByMethod(transaction)
        IN  [ hash |-> transaction.hash,
              timestamp |-> transaction.timestamp,
              value |-> transaction.value,
              tokenSymbol |-> transaction.tokenSymbol,
              tokenDecimal |-> transaction.tokenDecimal,
              from |-> transaction.from,
              to |-> transaction.to,
              network |-> transaction.network,
              blockNumber |-> transaction.blockNumber,
              method |-> transaction.method,
              isInternalETH |-> transaction.isInternalETH,
              transactionType |-> transactionType,
              feeCategory |-> getFeeCategory(transaction, transactionType) ]]

\* extractMethodFromTransaction; rawValue is in thousandths of a unit and 0
\* stands for an absent rawValue, "" for the result undefined.
extractMethodFromTransaction(transaction) ==
    LET rawValue == transaction.rawValue
        tokenSymbol == toUpperCase(transaction.tokenSymbol)
    IN  IF tokenSymbol = "WETH" /\ rawValue > 5000 THEN "emit loan"
        ELSE IF tokenSymbol = "WETH" /\ rawValue > 500 /\ rawValue <= 5000
        THEN "repay loan"
        ELSE IF tokenSymbol = "USDC" /\ rawValue > 5000000 THEN "emit loan"
        ELSE IF tokenSymbol = "USDC" /\ rawValue > 1000000 /\ rawValue <= 5000000
        THEN "refinance"
        ELSE IF rawValue < 1000000 THEN "buy"
        ELSE ""

\* let method = transaction.method; if (!method) method = extract...(transaction)
MethodOrExtracted(transaction) ==
    IF transaction.method # "" THEN transaction.method
    ELSE extractMethodFromTransaction(transaction)

enhanceTransactionClassification(transactions) ==
    [i \in DOMAIN transactions |->
        LET transaction == transactions[i]
            enhancedTransaction ==
                [transaction EXCEPT
                    !.method = MethodOrExtracted(transaction),
                    !.rawValue =
                        IF @ # 0 THEN @
                        ELSE parseTransactionValue(transaction.value,
                                 IF transaction.tokenDecimal = 0 THEN 18
                                 ELSE transaction.tokenDecimal)]
            transactionType == classifyTransactionByMethod(enhancedTransaction)
        IN  [ hash |-> enhancedTransaction.hash,
              timestamp |-> enhancedTransaction.timestamp,
              value |-> enhancedTransaction.value,
              tokenSymbol |-> enhancedTransaction.tokenSymbol,
              tokenDecimal |-> enhancedTransaction.tokenDecimal,
              from |-> enhancedTransaction.from,
              to |-> enhancedTransaction.to,
              network |-> enhancedTransaction.network,
              blockNumber |-> enhancedTransaction.blockNumber,
              method |-> enhancedTransaction.method,
              rawValue |-> enhancedTransaction.rawValue,
              isInternalETH |-> enhancedTransaction.isInternalETH,
              transactionType |-> transactionType,
              feeCategory |-> getFeeCategory(enhancedTransaction, transactionType) ]]

(***************************************************************************)
(* Specification SpecFunctions: the collectors' filter-and-map and         *)
(* aggregateFees applied to inputs drawn from sample sets.                 *)
(***************************************************************************)
\* Records of one provider answer.
MaxBatch == 2
\* Transactions of one list handed to aggregateFees.
MaxList == 2

FeeAddress(network) ==
    IF network = "ethereum" THEN ETHEREUM_ADDRESS ELSE HYPEREVM_ADDRESS

\* tokenSymbol and tokenName pairs the provider reports ("" is a missing field).
TokenSamples ==
    { <<"USDC", "USD Coin">>, <<"usdc", "USD Coin">>,
      <<"WETH", "Wrapped Ether">>, <<"WETHEREUM", "">>,
      <<"WHYPE", "Wrapped HYPE">>, <<"WRHYPER", "">>,
      <<"DAI", "Dai Stablecoin">>, <<"kHYPE", "Kinetiq Staked HYPE">>,
      <<"", "">> }

ToSamples ==
    { ETHEREUM_ADDRESS, "0x4169447A424EC645F8A24DCCFD8328F714DD5562",
      HYPEREVM_ADDRESS, "0xpayee", "" }

ValueSamples == {Value(25, 5), Value(0, 0), MalformedValue, EmptyValue}

RawSample(token, to, value) ==
    [ blockNumber |-> 1, timeStamp |-> 3600, hash |-> 0,
      from |-> "0xpayer", to |-> to,
      tokenSymbol |-> token[1], tokenName |-> token[2],
      tokenDecimal |-> <<>>, value |-> value, copies |-> 1 ]

RawSamples ==
    {RawSample(token, to, value) :
        token \in TokenSamples, to \in ToSamples, value \in ValueSamples}

\* A record every filter of its network accepts.
GoodRecord(network) ==
    RawSample(<<"USDC", "USD Coin">>, FeeAddress(network), Value(25, 5))

\* A batch of k records: the sample at position i among good records; the
\* hash of a record is its position.
Batch(network, k, i, sample) ==
    [j \in 1..k |->
        [(IF j = i THEN sample ELSE GoodRecord(network)) EXCEPT !.hash = j]]

Batches(network) ==
    {Batch(network, k, i, sample) :
        k \in 1..MaxBatch, i \in 1..MaxBatch, sample \in RawSamples}

Transaction(k, network, tokenSymbol, value, tokenDecimal, day, method) ==
    [ hash |-> k, timestamp |-> day * 86400000 + 3600000, value |-> value,
      tokenSymbol |-> tokenSymbol, tokenDecimal |-> tokenDecimal,
      from |-> "0xpayer", to |-> FeeAddress(network), network |-> network,
      blockNumber |-> 1 + day, method |-> method, isInternalETH |-> FALSE ]

TransactionSamples ==
    { Transaction(1, "ethereum", "USDC", Value(1, 6), 6, 0, "Buy"),
      Transaction(2, "hyperevm", "HUSDC", Value(2, 6), 6, 0, ""),
      Transaction(3, "ethereum", "WETH", Value(1, 16), 18, 6, "Repay Loan"),
      Transaction(4, "ethereum", "USDC", Value(5, 5), 6, 15, "Refinance Full"),
      Transaction(5, "hyperevm", "WHYPE", Value(1, 17), 18, 6, "Execute Sell"),
      Transaction(6, "ethereum", "WETH", MalformedValue, 18, 1, "Buy"),
      Transaction(7, "ethereum", "", Value(1, 18), 0, 2, "Transfer"),
      Transaction(8, "ethereum", "PURR", Value(3, 18), 18, 3, ""),
      [Transaction(9, "ethereum", "ETH", Value(1, 16), 18, 4, "Repay Loan")
          EXCEPT !.isInternalETH = TRUE],
      [Transaction(10, "ethereum", "ETH", Value(2, 16), 18, 4, "")
          EXCEPT !.isInternalETH = TRUE] }

TransactionLists ==
    UNION {[1..k -> TransactionSamples] : k \in 0..MaxList}

CollectCalls ==
    UNION { {[pc |-> "fetched", network |-> n, tokenResults |-> b,
              out |-> NoReturn] : b \in Batches(n)} : n \in Networks }

\* Transactions handed to enhanceTransactionClassification: amounts on both
\* sides of the thresholds, without a method and without rawValue; one with
\* rawValue given, one with a method, one internal.
Unclassified(k, tokenSymbol, value, tokenDecimal, rawValue, method, isInternalETH) ==
    [ hash |-> k, timestamp |-> 3600000, value |-> value,
      tokenSymbol |-> tokenSymbol, tokenDecimal |-> tokenDecimal,
      from |-> "0xpayer", to |-> ETHEREUM_ADDRESS, network |-> "ethereum",
      blockNumber |-> 1, method |-> method, rawValue |-> rawValue,
      isInternalETH |-> isInternalETH ]

EnhanceSamples ==
    { Unclassified(1, "WETH", Value(1, 18), 18, 0, "", FALSE),
      Unclassified(2, "WETH", Value(5, 17), 18, 0, "", FALSE),
      Unclassified(3, "WETH", Value(6, 18), 18, 0, "", FALSE),
      Unclassified(4, "USDC", Value(2, 9), 6, 0, "", FALSE),
      Unclassified(5, "USDC", Value(5, 8), 6, 0, "", FALSE),
      Unclassified(6, "USDC", Value(1, 9), 6, 0, "", FALSE),
      Unclassified(7, "WETH", Value(6, 18), 18, 6000, "", FALSE),
      Unclassified(8, "USDC", Value(2, 9), 6, 0, "Buy", FALSE),
      Unclassified(9, "ETH", Value(1, 18), 18, 0, "", TRUE) }

EnhanceCalls ==
    {[pc |-> "enhancing", transactions |-> list, result |-> Null] :
        list \in UNION {[1..k -> EnhanceSamples] : k \in 0..MaxList}}

AggregateCalls ==
    {[pc |-> "listed", transactions |-> list, result |-> Null] :
        list \in TransactionLists}

InitFunctions ==
    /\ \/ collect \in CollectCalls /\ agg = Unused
       \/ collect = Unused /\ agg \in AggregateCalls
       \/ collect = Unused /\ agg \in EnhanceCalls
    /\ retry = Unused
    /\ oracle = Unused
    /\ budget = Unused
    /\ pag = Unused
    /\ inflight = {}
    /\ lastResponse = NoResponse
    /\ requested = <<>>
    /\ serverStorage = [n \in Networks |-> Null]
    /\ chain = [n \in Networks |-> 0]
    /\ queries = <<>>
    /\ started = 0

\* The collector filters and maps what the paginated fetch returned.
Collects ==
    /\ collect.pc = "fetched"
    /\ collect' = [collect EXCEPT
           !.pc = "returned",
           !.out = Collected(collect.network,
                       [ run |-> [pc |-> "returned",
                                  allResults |-> collect.tokenResults],
                         skipped |-> {} ])]
    /\ UNCHANGED <<pagVars, queryVars, retry, agg, oracle, budget>>

\* classifyTransactions is applied to the list.
Classifies ==
    /\ agg.pc = "listed"
    /\ agg' = [agg EXCEPT !.pc = "called",
                          !.transactions = classifyTransactions(agg.transactions)]
    /\ UNCHANGED <<pagVars, queryVars, retry, collect, oracle, budget>>

\* enhanceTransactionClassification is applied to the list; `result` keeps
\* its output beside the input.
Enhances ==
    /\ agg.pc = "enhancing"
    /\ agg' = [agg EXCEPT
           !.pc = "enhanced",
           !.result = enhanceTransactionClassification(agg.transactions)]
    /\ UNCHANGED <<pagVars, queryVars, retry, collect, oracle, budget>>

\* aggregateFees settles.
Aggregates ==
    /\ agg.pc = "called"
    /\ agg' = [agg EXCEPT !.pc = "settled",
                          !.result = aggregateFees(agg.transactions)]
    /\ UNCHANGED <<pagVars, queryVars, retry, collect, oracle, budget>>

NextFunctions == Collects \/ Classifies \/ Enhances \/ Aggregates

SpecFunctions == InitFunctions /\ [][NextFunctions]_vars

(***************************************************************************)
(* Specification SpecPrices: lib/prices.ts.  getMultipleTokenPrices is     *)
(* called again and again; each call starts one getTokenPriceUSD per token *)
(* and the lookups then advance one suspension point at a time, in any     *)
(* order, while the clock moves.  Prices are in cents.                     *)
(***************************************************************************)
CACHE_DURATION == 3600000

MaxHours == 2
MaxTicks == 3
MaxLookups == 2

\* The clock advances by a millisecond or by a millisecond less than the TTL.
ClockSteps == {1, CACHE_DURATION - 1}

TokenBatches == {{"WETH"}, {"ETH"}, {"usdc", "WHYPE"}, {"WETH", "PURR"}}

\* What the provider's JSON holds for the requested id: data[coinId]?.usd.
Quote(usd) == [has |-> TRUE, usd |-> usd]
NoQuote == [has |-> FALSE, usd |-> 0]
Quotes == {Quote(101), Quote(320000), NoQuote}

tokenMap(normalizedSymbol) ==
    CASE normalizedSymbol = "WETH" -> "weth"
      [] normalizedSymbol = "ETH" -> "ethereum"
      [] normalizedSymbol \in {"USDC", "HUSDC"} -> "usd-coin"
      [] normalizedSymbol = "USDT" -> "tether"
      [] normalizedSymbol = "DAI" -> "dai"
      [] OTHER -> toLowerCase(normalizedSymbol)

\* fallbackPrices[normalizedSymbol] || 0
fallbackPrices(normalizedSymbol) ==
    CASE normalizedSymbol \in {"WETH", "ETH"} -> 318905
      [] normalizedSymbol \in {"USDC", "HUSDC", "USDT", "DAI"} -> 100
      [] normalizedSymbol = "WHYPE" -> 2786
      [] OTHER -> 0

\* cached && Date.now() - cached.timestamp < CACHE_DURATION, with a later
\* bound of the comparison as its variant.
CacheFresh_Inclusive(priceCache, normalizedSymbol, now) ==
    /\ normalizedSymbol \in DOMAIN priceCache
    /\ now - priceCache[normalizedSymbol].timestamp <= CACHE_DURATION

CacheFresh(priceCache, normalizedSymbol, now) ==
    /\ normalizedSymbol \in DOMAIN priceCache
    /\ now - priceCache[normalizedSymbol].timestamp < CACHE_DURATION

\* One call of getTokenPriceUSD: where it stands, whether it called the
\* provider, how the lookup went, the quote it read and what it returned.
Lookup(pc, external, outcome, quote, result) ==
    [ pc |-> pc, external |-> external, outcome |-> outcome,
      coinId |-> "", quote |-> quote, result |-> result ]

\* The call up to its first await.
LookupStart(token, priceCache, now) ==
    LET normalizedSymbol == toUpperCase(token)
    IN  IF normalizedSymbol = "WHYPE"
        THEN Lookup("returned", FALSE, "fixed", NoQuote, 2786)
        ELSE IF CacheFresh(priceCache, normalizedSymbol, now)
        THEN Lookup("returned", FALSE, "cached", NoQuote,
                    priceCache[normalizedSymbol].price)
        ELSE [Lookup("fetch", TRUE, "none", NoQuote, 0)
                 EXCEPT !.coinId = tokenMap(normalizedSymbol)]

\* The catch block that lets the error go on to the caller.
LookupCatch_Rethrows(call, normalizedSymbol, outcome) ==
    [call EXCEPT !.pc = "threw", !.outcome = outcome]

\* The catch block: the fallback table's price, or 0.
LookupCatch(call, normalizedSymbol, outcome) ==
    [call EXCEPT !.pc = "returned", !.outcome = outcome,
                 !.result = fallbackPrices(normalizedSymbol)]

\* const price = data[coinId]?.usd || 0
LookupPrice(quote) == IF quote.has THEN quote.usd ELSE 0

\* What Promise.all settles with.
BatchResult(calls, prices) ==
    IF \E t \in DOMAIN calls : calls[t].pc = "threw" THEN Rejected ELSE prices

InitPrices ==
    /\ oracle = [ pc |-> "idle", now |-> 0, ticks |-> 0, lookups |-> 0,
                  priceCache |-> <<>>, calls |-> <<>>, prices |-> <<>>,
                  result |-> Null, previous |-> Null, report |-> Null ]
    /\ budget = Unused
    /\ retry = Unused
    /\ collect = Unused
    /\ agg = Unused
    /\ pag = Unused
    /\ inflight = {}
    /\ lastResponse = NoResponse
    /\ requested = <<>>
    /\ serverStorage = [n \in Networks |-> Null]
    /\ chain = [n \in Networks |-> 0]
    /\ queries = <<>>
    /\ started = 0

NotOracle == <<pagVars, queryVars, retry, collect, agg, budget>>

\* prices[normalizedToken] = await getTokenPriceUSD(token), for the calls
\* that have returned.
Assigned(prices, calls, tokens) ==
    [k \in DOMAIN prices
           \cup {toUpperCase(t) : t \in {u \in tokens : calls[u].pc = "returned"}} |->
        IF \E t \in tokens : toUpperCase(t) = k /\ calls[t].pc = "returned"
        THEN calls[CHOOSE t \in tokens :
                       toUpperCase(t) = k /\ calls[t].pc = "returned"].result
        ELSE prices[k]]

\* getMultipleTokenPrices is called: tokens.map starts every lookup.
BatchStarts ==
    /\ oracle.pc \in {"idle", "settled"}
    /\ oracle.lookups < MaxLookups
    /\ \E tokens \in TokenBatches :
          LET calls == [t \in tokens |->
                           LookupStart(t, oracle.priceCache, oracle.now)]
          IN  oracle' = [oracle EXCEPT
                  !.pc = "batch",
                  !.lookups = @ + 1,
                  !.calls = calls,
                  !.prices = Assigned(<<>>, calls, tokens),
                  !.result = Null,
                  !.previous = IF oracle.pc = "settled"
                               THEN [ tokens |-> DOMAIN oracle.calls,
                                      result |-> oracle.result ]
                               ELSE Null,
                  !.report = Null]
    /\ UNCHANGED NotOracle

\* fetch resolves with an OK response; response.json() is awaited next.
FetchOk ==
    /\ oracle.pc = "batch"
    /\ \E t \in DOMAIN oracle.calls, quote \in Quotes :
          /\ oracle.calls[t].pc = "fetch"
          /\ oracle' = [oracle EXCEPT
                 !.calls[t] = [@ EXCEPT !.pc = "json", !.quote = quote]]
    /\ UNCHANGED NotOracle

\* fetch resolves with a status that is not OK: the throw of line 38 is
\* caught.
FetchNotOk ==
    /\ oracle.pc = "batch"
    /\ \E t \in DOMAIN oracle.calls :
          /\ oracle.calls[t].pc = "fetch"
          /\ LET calls == [oracle.calls EXCEPT
                     ![t] = LookupCatch(@, toUpperCase(t), "notok")]
             IN  oracle' = [oracle EXCEPT
                     !.calls = calls,
                     !.prices = Assigned(@, calls, {t})]
    /\ UNCHANGED NotOracle

\* fetch rejects (network error): caught.
FetchFails ==
    /\ oracle.pc = "batch"
    /\ \E t \in DOMAIN oracle.calls :
          /\ oracle.calls[t].pc = "fetch"
          /\ LET calls == [oracle.calls EXCEPT
                     ![t] = LookupCatch(@, toUpperCase(t), "rejected")]
             IN  oracle' = [oracle EXCEPT
                     !.calls = calls,
                     !.prices = Assigned(@, calls, {t})]
    /\ UNCHANGED NotOracle

\* response.json() resolves: the price is read, cached and returned.
JsonParsed ==
    /\ oracle.pc = "batch"
    /\ \E t \in DOMAIN oracle.calls :
          /\ oracle.calls[t].pc = "json"
          /\ LET price == LookupPrice(oracle.calls[t].quote)
                 calls == [oracle.calls EXCEPT ![t] =
                     [@ EXCEPT !.pc = "returned",
                               !.outcome = IF oracle.calls[t].quote.has
                                            THEN "ok" ELSE "missing",
                               !.result = price]]
                 entry == [price |-> price, timestamp |-> oracle.now]
             IN  oracle' = [oracle EXCEPT
                     !.calls = calls,
                     !.priceCache =
                         [k \in DOMAIN @ \cup {toUpperCase(t)} |->
                             IF k = toUpperCase(t) THEN entry ELSE @[k]],
                     !.prices = Assigned(@, calls, {t})]
    /\ UNCHANGED NotOracle

\* response.json() rejects (the body is no JSON): caught.
JsonFails ==
    /\ oracle.pc = "batch"
    /\ \E t \in DOMAIN oracle.calls :
          /\ oracle.calls[t].pc = "json"
          /\ LET calls == [oracle.calls EXCEPT
                     ![t] = LookupCatch(@, toUpperCase(t), "badjson")]
             IN  oracle' = [oracle EXCEPT
                     !.calls = calls,
                     !.prices = Assigned(@, calls, {t})]
    /\ UNCHANGED NotOracle

\* Promise.all settles and getMultipleTokenPrices returns prices.
BatchSettles ==
    /\ oracle.pc = "batch"
    /\ \A t \in DOMAIN oracle.calls : oracle.calls[t].pc \in {"returned", "threw"}
    /\ oracle' = [oracle EXCEPT
           !.pc = "settled",
           !.result = BatchResult(oracle.calls, oracle.prices)]
    /\ UNCHANGED NotOracle

\* The tokens aggregateFees asks prices for (ETH asked as WETH), and the
\* tokens the route asks for afterwards.
AggregatorCurrencies(transactions) ==
    {PricingSymbol(transactions[i]) : i \in DOMAIN transactions} \ {""}

RouteCurrencies(transactions) ==
    {toUpperCase(transactions[i].tokenSymbol) : i \in DOMAIN transactions} \ {""}

\* The lists a response is built from in the model: non-empty, every value
\* a decimal string.
ReportLists ==
    {list \in TransactionLists :
        /\ list # <<>>
        /\ \A i \in DOMAIN list : ~BigIntThrows(list[i].value)}

\* The handler after its second getMultipleTokenPrices: the batch before
\* was aggregateFees' own, this one is the route's; the totals and the
\* recentTransactions of the response are built.
Reports ==
    /\ oracle.pc = "settled"
    /\ oracle.report = Null
    /\ oracle.previous # Null
    /\ oracle.result # Rejected
    /\ oracle.previous.result # Rejected
    /\ \E list \in ReportLists :
          /\ AggregatorCurrencies(list) = oracle.previous.tokens
          /\ RouteCurrencies(list) = DOMAIN oracle.calls
          /\ oracle' = [oracle EXCEPT !.report =
                 [ transactions |-> list,
                   totals |-> AggregateAll(AggregateStart, list,
                                           oracle.previous.result),
                   recentTransactions |->
                       recentTransactions(list, oracle.result) ]]
    /\ UNCHANGED NotOracle

\* Time passes.
ClockTicks ==
    /\ oracle.ticks < MaxTicks
    /\ \E step \in ClockSteps :
          /\ oracle.now + step <= MaxHours * CACHE_DURATION
          /\ oracle' = [oracle EXCEPT !.now = @ + step, !.ticks = @ + 1]
    /\ UNCHANGED NotOracle

NextPrices ==
    \/ BatchStarts
    \/ FetchOk
    \/ FetchNotOk
    \/ FetchFails
    \/ JsonParsed
    \/ JsonFails
    \/ BatchSettles
    \/ Reports
    \/ ClockTicks

SpecPrices == InitPrices /\ [][NextPrices]_vars

(***************************************************************************)
(* Specification SpecBudget: the time budget of the /api/fees module.      *)
(* FUNCTION_START_TIME is set when the module is loaded (time 0); queries  *)
(* arrive one after another while the clock moves.  Times are in ms.       *)
(***************************************************************************)
MAX_FUNCTION_DURATION == 55000

ClockStep == 5000
MaxClockSteps == 14
MaxServed == 3

checkTimeRemaining(now, FUNCTION_START_TIME) ==
    LET elapsed == now - FUNCTION_START_TIME
    IN  MAX_FUNCTION_DURATION - elapsed

\* Math.min(40000, timeRemaining - 10000)
API_TIMEOUT(timeRemaining) ==
    IF timeRemaining - 10000 < 40000 THEN timeRemaining - 10000 ELSE 40000

InitBudget ==
    /\ budget = [ pc |-> "idle", FUNCTION_START_TIME |-> 0, now |-> 0,
                  served |-> 0, arrivedAt |-> 0, checkedAt |-> 0,
                  timeRemaining |-> 0, apiTimeout |-> 0, response |-> "none" ]
    /\ oracle = Unused
    /\ retry = Unused
    /\ collect = Unused
    /\ agg = Unused
    /\ pag = Unused
    /\ inflight = {}
    /\ lastResponse = NoResponse
    /\ requested = <<>>
    /\ serverStorage = [n \in Networks |-> Null]
    /\ chain = [n \in Networks |-> 0]
    /\ queries = <<>>
    /\ started = 0

NotBudget == <<pagVars, queryVars, retry, collect, agg, oracle>>

\* Time passes, between queries or while one is served.
TimePasses ==
    /\ budget.now < MaxClockSteps * ClockStep
    /\ budget' = [budget EXCEPT !.now = @ + ClockStep]
    /\ UNCHANGED NotBudget

\* A live query arrives: GET is entered.
QueryArrives ==
    /\ budget.pc \in {"idle", "answered"}
    /\ budget.served < MaxServed
    /\ budget' = [budget EXCEPT !.pc = "arrived", !.served = @ + 1,
                                !.arrivedAt = budget.now, !.response = "none"]
    /\ UNCHANGED NotBudget

\* GET reaches the check before the API calls: the early 504 when less than
\* 10 s are left, else the collectors are started with API_TIMEOUT.
BudgetChecked ==
    /\ budget.pc = "arrived"
    /\ LET timeRemaining ==
               checkTimeRemaining(budget.now, budget.FUNCTION_START_TIME)
       IN  budget' = [budget EXCEPT
               !.pc = "answered",
               !.checkedAt = budget.now,
               !.timeRemaining = timeRemaining,
               !.apiTimeout = IF timeRemaining < 10000 THEN 0
                              ELSE API_TIMEOUT(timeRemaining),
               !.response = IF timeRemaining < 10000 THEN "Request Timeout"
                            ELSE "fetching"]
    /\ UNCHANGED NotBudget

NextBudget == TimePasses \/ QueryArrives \/ BudgetChecked

SpecBudget == InitBudget /\ [][NextBudget]_vars

(***************************************************************************)
(* Properties of the query handler and the cursor store (SpecQuery)        *)
(***************************************************************************)
\* The step is one of query q's own.
StepOf(q) ==
    /\ queries'[q] # queries[q]
    /\ \A r \in QueryIds \ {q} : queries'[r] = queries[r]

Starts(q) == queries[q].pc # "fetching" /\ queries'[q].pc = "fetching"
Settles(q) == queries[q].pc = "fetching" /\ queries'[q].pc # "fetching"

DefaultFlags(query) ==
    ~query.fullRefresh /\ query.incrementalParam = "absent"

MaxBlockOf(transactions) ==
    CHOOSE b \in {transactions[i].blockNumber : i \in DOMAIN transactions} :
        \A i \in DOMAIN transactions : transactions[i].blockNumber <= b

\* C1: the stored cursor of a network never moves to a lower block, whatever
\* the sequence of writes made by the queries.
C1_CursorNeverRegresses ==
    [][\A n \in Networks :
          serverStorage[n] # Null =>
              /\ serverStorage'[n] # Null
              /\ serverStorage'[n].blockNumber >= serverStorage[n].blockNumber]_vars

\* C2: a query whose paginator run skipped a failed window [s, e] does not
\* write that network's cursor with a block at or above s.
C2_NoCursorPastSkippedWindow ==
    \A q \in QueryIds, n \in Networks :
        (queries[q].settled[n] = "fulfilled" /\ queries[q].wrote[n] # Null) =>
            \A w \in queries[q].returned[n].skipped :
                queries[q].wrote[n].blockNumber < w[1]

\* C3: with no cursor stored a query starts both collectors at block 0; a
\* query that receives transactions of a network stores their highest block
\* as that network's cursor; and a query with default flags starts the
\* collector of a network that has a cursor at cursor.blockNumber + 1.
C3_IncrementalResumption ==
    [][\A q \in QueryIds :
          /\ Starts(q) =>
                /\ (\A n \in Networks : serverStorage[n] = Null) =>
                       \A n \in Networks : queries'[q].startBlock[n] = 0
                /\ DefaultFlags(queries'[q]) =>
                       \A n \in Networks :
                           serverStorage[n] # Null =>
                               queries'[q].startBlock[n] =
                                   serverStorage[n].blockNumber + 1
          /\ Settles(q) =>
                \A n \in Networks :
                    (/\ queries[q].settled[n] = "fulfilled"
                     /\ queries[q].value[n] # <<>>) =>
                        /\ serverStorage'[n] # Null
                        /\ serverStorage'[n].blockNumber =
                               MaxBlockOf(queries[q].value[n])]_vars

\* A default-flags query is fetching from the block after a cursor that an
\* earlier query stored.
C3_Witness ==
    \E q \in QueryIds, n \in Networks :
        /\ queries[q].pc = "fetching"
        /\ DefaultFlags(queries[q])
        /\ started = 2
        /\ serverStorage[n] # Null
        /\ serverStorage[n].blockNumber > 0
        /\ queries[q].startBlock[n] = serverStorage[n].blockNumber + 1

\* Network n's collection failed entirely in query q: it lost the race
\* against the budget, or the collector broke and gave [].
FailedEntirely(q, n) ==
    \/ queries[q].settled[n] = "rejected"
    \/ queries[q].settled[n] = "fulfilled" /\ queries[q].returned[n].broke

Answered(q) == queries[q].pc = "done" /\ queries[q].response # Null

\* C4: when one network's collection failed entirely and the other one
\* delivered a non-empty list, the answer is a success whose report is the
\* aggregation of exactly that list.
C4_PartialFailureStillReports ==
    \A q \in QueryIds, n \in Networks, m \in Networks :
        (/\ Answered(q)
         /\ n # m
         /\ FailedEntirely(q, n)
         /\ queries[q].settled[m] = "fulfilled"
         /\ queries[q].value[m] # <<>>) =>
            /\ queries[q].response.success
            /\ queries[q].response.status = 200
            /\ queries[q].response.data = aggregateFees(queries[q].value[m])
            /\ queries[q].response.stats.totalTransactions =
                   Len(queries[q].value[m])

\* A query was answered with a report of the other network's transactions
\* although one collector broke.
C4_Witness ==
    \E q \in QueryIds, n \in Networks, m \in Networks :
        /\ Answered(q)
        /\ n # m
        /\ queries[q].settled[n] = "fulfilled" /\ queries[q].returned[n].broke
        /\ queries[q].settled[m] = "fulfilled"
        /\ Len(queries[q].value[m]) >= 2
        /\ queries[q].response.success

\* What the handler receives from a collector that returned: a fulfilled
\* promise carrying the list.
Delivered(q, n) ==
    [status |-> "fulfilled", value |-> queries[q].returned[n].transactions]

\* C5: what the handler receives from a collector whose fetch broke differs
\* from what it receives from a collector that completed and found nothing.
C5_BrokenDistinctFromEmpty ==
    \A q \in QueryIds, r \in QueryIds, n \in Networks, m \in Networks :
        (/\ queries[q].collector[n] = "returned"
         /\ queries[q].returned[n].broke
         /\ queries[r].collector[m] = "returned"
         /\ ~queries[r].returned[m].broke
         /\ queries[r].returned[m].skipped = {}
         /\ queries[r].returned[m].transactions = <<>>) =>
            Delivered(q, n) # Delivered(r, m)

\* C6: no step of a query in which network n's collection lost the race
\* against the budget changes n's cursor, the late return of the abandoned
\* collector included.
C6_TimeoutLeavesCursor ==
    [][\A q \in QueryIds, n \in Networks :
          (StepOf(q) /\ queries[q].settled[n] = "rejected") =>
              serverStorage'[n] = serverStorage[n]]_vars

\* A query was answered after network n timed out, the abandoned collector
\* returned transactions afterwards, and n still has no cursor.
C6_Witness ==
    \E q \in QueryIds, n \in Networks :
        /\ queries[q].pc = "done"
        /\ queries[q].settled[n] = "rejected"
        /\ queries[q].collector[n] = "returned"
        /\ queries[q].returned[n].transactions # <<>>
        /\ serverStorage[n] = Null

C28_CursorWritesPerNetwork ==
    [][\A q \in QueryIds, n \in Networks :
          (Settles(q) /\ queries'[q].wrote[n] = Null) =>
              /\ serverStorage'[n] = serverStorage[n]
              /\ getStartBlock(serverStorage', n) = getStartBlock(serverStorage, n)]_vars

\* A query wrote the cursor of one network only, and the cursor an earlier
\* query wrote for the other network is still stored.
C28_Witness ==
    \E q \in QueryIds, n \in Networks, m \in Networks :
        /\ n # m
        /\ queries[q].pc = "done"
        /\ queries[q].wrote[n] # Null
        /\ serverStorage[n] = queries[q].wrote[n]
        /\ queries[q].wrote[m] = Null
        /\ serverStorage[m] # Null

(***************************************************************************)
(* Properties of fetchWithRetry (SpecRetry)                                *)
(***************************************************************************)
\* Status "0" with a message that does not mean "no records".
ErrorEnvelope(envelope) ==
    envelope.status = "0" /\ envelope.message # "No transactions found"

\* C11: an error envelope is a failed attempt: the call never returns on one
\* (it retries, and throws when the attempts are used up).
C11_ErrorEnvelopeIsFailure ==
    retry.pc = "returned" => ~ErrorEnvelope(retry.envelope)

\* C12: no attempt is still in flight (waiting for the response or reading
\* its body) once its deadline has passed.
C12_AttemptBoundedByDeadline ==
    retry.pc \in {"fetch", "body"} => ~retry.deadline

\* Ways an attempt ends without a response to parse.
TransportFailures == {"transport", "aborted", "http"}

\* C29: the call issues at most `retries` requests; when every attempt ends
\* in a transport error, an abort or a status that is not OK it throws after
\* the last one; and the retry after failed attempt k comes after a wait of
\* k x 1000 ms.
C29_BoundedAttemptsWithBackoff ==
    retry.pc # "unused" =>
        /\ retry.i < retry.retries
        /\ Len(retry.log) <= retry.retries
        /\ (/\ Len(retry.log) = retry.retries
            /\ \A k \in DOMAIN retry.log : retry.log[k] \in TransportFailures) =>
               retry.pc = "threw"
        /\ \A k \in 1..retry.i :
               retry.log[k] \in TransportFailures =>
                   /\ k <= Len(retry.waited)
                   /\ retry.waited[k] = k * 1000

(***************************************************************************)
(* Properties of the collectors and of aggregateFees (SpecFunctions)       *)
(***************************************************************************)
AllowList(network) ==
    IF network = "ethereum" THEN {"USDC", "WETH"} ELSE {"HUSDC", "WHYPE"}

Returned == collect.pc = "returned"
Emitted == collect.out.transactions

\* C13: every Transaction a collector returns carries a symbol of its
\* network's allow-list, whatever symbols and names the provider reports.
C13_AllowList ==
    Returned =>
        \A i \in DOMAIN Emitted :
            Emitted[i].tokenSymbol \in AllowList(collect.network)

ToFeeAddress(network, to) ==
    to # "" /\ toLowerCase(to) = toLowerCase(FeeAddress(network))

\* C14: every Transaction a collector returns is built from a raw record
\* addressed (in any letter case) to its network's fee address with a value
\* above 0; a raw record addressed elsewhere, or whose value is 0 or
\* missing, gives no Transaction.
C14_ToFeeAddressPositive ==
    Returned =>
        /\ \A i \in DOMAIN Emitted :
              LET raw == collect.tokenResults[Emitted[i].hash]
              IN  /\ Emitted[i].to = raw.to
                  /\ Emitted[i].value = raw.value
                  /\ ToFeeAddress(collect.network, Emitted[i].to)
                  /\ Emitted[i].value.kind = "integer"
                  /\ Emitted[i].value.m > 0
        /\ \A j \in DOMAIN collect.tokenResults :
              LET raw == collect.tokenResults[j]
              IN  (\/ ~ToFeeAddress(collect.network, raw.to)
                   \/ raw.value.kind = "empty"
                   \/ raw.value.kind = "integer" /\ raw.value.m = 0) =>
                      \A i \in DOMAIN Emitted : Emitted[i].hash # j

\* Of two records of an accepted token with a value above 0, the collector
\* returned the one sent to the fee address and dropped the other.
C14_Witness ==
    /\ Returned
    /\ Len(collect.tokenResults) = 2
    /\ Len(Emitted) = 1
    /\ \E j \in DOMAIN collect.tokenResults :
          /\ collect.tokenResults[j].to = "0xpayee"
          /\ collect.tokenResults[j].tokenSymbol = "USDC"
          /\ IsPositive(collect.tokenResults[j].value)

NativeTotal(transactions, currency) ==
    LET own == SelectSeq(transactions,
                   LAMBDA tx : toUpperCase(tx.tokenSymbol) = currency)
    IN  SumOver([i \in DOMAIN own |->
                    parseTransactionValue(own[i].value,
                        IF own[i].tokenDecimal = 0 THEN 18
                        ELSE own[i].tokenDecimal)],
                DOMAIN own)

Settled == agg.pc = "settled"
Reported == agg.pc = "settled" /\ agg.result # Rejected

\* C15: the HyperEVM collector never returns a Transaction tagged USDC, and
\* aggregateFees reports USDC and HUSDC under two keys of currencyBreakdown,
\* each with the native total of its own transactions.
C15_SymbolIsolation ==
    /\ (Returned /\ collect.network = "hyperevm") =>
           \A i \in DOMAIN Emitted : Emitted[i].tokenSymbol # "USDC"
    /\ Reported =>
           \A currency \in {"USDC", "HUSDC"} :
               LET present == \E i \in DOMAIN agg.transactions :
                       toUpperCase(agg.transactions[i].tokenSymbol) = currency
               IN  /\ present <=> currency \in DOMAIN agg.result.currencyBreakdown
                   /\ present =>
                          agg.result.currencyBreakdown[currency].total =
                              NativeTotal(agg.transactions, currency)

\* 1000000 of USDC and 2000000 of HUSDC, both at 6 decimals, are reported as
\* 1.0 and 2.0 (1000 and 2000 thousandths).
C15_Witness ==
    /\ Reported
    /\ Len(agg.transactions) = 2
    /\ DOMAIN agg.result.currencyBreakdown = {"USDC", "HUSDC"}
    /\ agg.result.currencyBreakdown["USDC"].total = 1000
    /\ agg.result.currencyBreakdown["HUSDC"].total = 2000

\* C16: aggregateFees completes on a list holding a transaction whose value
\* is not an integer string, and reports what it reports for the list
\* without that transaction.
C16_MalformedValueSkipped ==
    Settled =>
        /\ agg.result # Rejected
        /\ agg.result = aggregateFees(SelectSeq(agg.transactions,
                            LAMBDA tx : ~BigIntThrows(tx.value)))

Accepts(network, raw) ==
    IF network = "ethereum" THEN EthereumFilter(raw) ELSE HyperEVMFilter(raw)

\* C17: a raw record with a malformed value is skipped alone: every other
\* record of the batch that the filter accepts still gives a Transaction.
C17_BadRecordSkippedAlone ==
    Returned =>
        \A j \in DOMAIN collect.tokenResults :
            Accepts(collect.network, collect.tokenResults[j]) =>
                \E i \in DOMAIN Emitted : Emitted[i].hash = j

TotalUSD(breakdown) ==
    SumOver([k \in DOMAIN breakdown |-> breakdown[k].totalUSD], DOMAIN breakdown)

\* C18: the USD totals of categoryBreakdown and of currencyBreakdown add up
\* to the same amount.
C18_Conservation ==
    Reported =>
        TotalUSD(agg.result.categoryBreakdown) =
            TotalUSD(agg.result.currencyBreakdown)

\* 100 percent and the tolerance 0.001, in units of 10^-5 percent.
Hundred == 100 * Pow10(PercentDigits)
Tolerance == Pow10(PercentDigits - 3)

PercentagesSound(breakdown, grandTotal) ==
    LET sum == SumOver([k \in DOMAIN breakdown |-> breakdown[k].percentage],
                       DOMAIN breakdown)
    IN  /\ (\E k \in DOMAIN breakdown : breakdown[k].totalUSD # 0) =>
               (Hundred - Tolerance <= sum /\ sum <= Hundred + Tolerance)
        /\ grandTotal = 0 =>
               \A k \in DOMAIN breakdown : breakdown[k].percentage = 0

\* C19: in currencyBreakdown and in categoryBreakdown the percentages add up
\* to 100 (within 0.001) when some entry has a nonzero USD total, and all
\* are 0 when the grand USD total is 0.
C19_PercentagesSumTo100 ==
    Reported =>
        /\ PercentagesSound(agg.result.currencyBreakdown,
                            TotalUSD(agg.result.currencyBreakdown))
        /\ PercentagesSound(agg.result.categoryBreakdown,
                            TotalUSD(agg.result.currencyBreakdown))

\* The transactions aggregateFees does not skip for a missing symbol.
Counted(transactions) ==
    SelectSeq(transactions, LAMBDA tx : toUpperCase(tx.tokenSymbol) # "")

\* C20: a transaction the classifier put in loan_usdc or loan_weth is
\* counted in that bucket of categoryBreakdown.
C20_LoanBuckets ==
    Reported =>
        \A category \in {"loan_usdc", "loan_weth"} :
            agg.result.categoryBreakdown[category].count =
                Len(SelectSeq(Counted(agg.transactions),
                        LAMBDA tx : tx.feeCategory = category))

\* The symbols of the list that no price table knows.
Unpriced(transactions) ==
    {PricingSymbol(transactions[i]) : i \in DOMAIN transactions}
        \cap {symbol \in {"PURR", "XYZ"} : getTokenPriceUSD(symbol) = 0}

RecognizedSymbols == {"USDC", "WETH", "ETH", "HUSDC", "WHYPE"}

\* C22: a transaction whose symbol is missing, empty or not recognized adds
\* nothing: the report is the report of the list without such transactions.
C22_UnrecognizedSkipped ==
    Reported =>
        agg.result = aggregateFees(SelectSeq(agg.transactions,
                         LAMBDA tx : toUpperCase(tx.tokenSymbol)
                                         \in RecognizedSymbols))

Classified == agg.pc \in {"called", "settled"}

\* C26: a transaction with isInternalETH set is classified as a sale whatever
\* its method: its type is the sale type and its category a sales category.
C26_InternalETHIsSale ==
    Classified =>
        \A i \in DOMAIN agg.transactions :
            agg.transactions[i].isInternalETH =>
                /\ agg.transactions[i].transactionType = "sales"
                /\ agg.transactions[i].feeCategory \in {"sales_usdc", "sales_weth"}

\* C27: the category of a classified transaction follows from its type and
\* its currency alone: uncategorized exactly for the type unknown, a loan
\* category exactly for a loan, a sales category exactly for a sale, ending
\* in usdc for USDC and HUSDC and in weth for ETH, WETH and WHYPE.
C27_CategoryFromTypeAndCurrency ==
    Classified =>
        \A i \in DOMAIN agg.transactions :
            LET tx == agg.transactions[i]
                symbol == toUpperCase(tx.tokenSymbol)
            IN  /\ tx.feeCategory = "uncategorized" <=>
                       tx.transactionType = "unknown"
                /\ tx.feeCategory \in {"loan_usdc", "loan_weth"} <=>
                       tx.transactionType = "loan"
                /\ tx.feeCategory \in {"sales_usdc", "sales_weth"} <=>
                       tx.transactionType = "sales"
                /\ (symbol \in {"USDC", "HUSDC"}
                        /\ tx.feeCategory # "uncategorized") =>
                       tx.feeCategory \in {"loan_usdc", "sales_usdc"}
                /\ (symbol \in {"ETH", "WETH", "WHYPE"}
                        /\ tx.feeCategory # "uncategorized") =>
                       tx.feeCategory \in {"loan_weth", "sales_weth"}

\* C31: a transaction without method, without rawValue and not internal is
\* classified from its amount: a WETH transfer above 0.5 and a USDC transfer
\* above 1000 are loans, a WETH transfer of at most 0.5 and a USDC transfer
\* below 1000 are sales.
C31_MagnitudeFallback ==
    agg.pc = "enhanced" =>
        \A i \in DOMAIN agg.transactions :
            LET tx == agg.transactions[i]
                symbol == toUpperCase(tx.tokenSymbol)
                amount == parseTransactionValue(tx.value, tx.tokenDecimal)
                type == agg.result[i].transactionType
            IN  (tx.method = "" /\ tx.rawValue = 0 /\ ~tx.isInternalETH) =>
                    /\ (symbol = "WETH" /\ amount > 500) => type = "loan"
                    /\ (symbol = "USDC" /\ amount > 1000000) => type = "loan"
                    /\ (symbol = "WETH" /\ amount <= 500) => type = "sales"
                    /\ (symbol = "USDC" /\ amount < 1000000) => type = "sales"

\* The sum of one numeric field over all entries of a period map.
PeriodSum(periods, field) ==
    SumOver([k \in DOMAIN periods |-> periods[k][field]], DOMAIN periods)

\* The transactions aggregateFees does not skip: those with a symbol.
Included(transactions) ==
    SelectSeq(transactions, LAMBDA tx : toUpperCase(tx.tokenSymbol) # "")

\* total and totalUSD of a PeriodData are the sums of its per-currency maps.
PeriodAddsUp(period) ==
    /\ period.totalUSD = SumOver(period.currenciesUSD, DOMAIN period.currenciesUSD)
    /\ period.total = SumOver(period.currencies, DOMAIN period.currencies)

LookupFailed(call) ==
    call.outcome \in {"notok", "rejected", "badjson", "missing"}

\* C23: a lookup that fails in any way, an OK response without an entry for
\* the feed included, returns the fallback table's price of the symbol (0
\* for a symbol of no table) and does not throw.
C23_FailureGivesFallback ==
    oracle.pc \in {"batch", "settled"} =>
        \A t \in DOMAIN oracle.calls :
            /\ oracle.calls[t].pc # "threw"
            /\ (oracle.calls[t].pc = "returned" /\ LookupFailed(oracle.calls[t])) =>
                   oracle.calls[t].result = fallbackPrices(toUpperCase(t))

BatchBegins == oracle.pc \in {"idle", "settled"} /\ oracle'.pc = "batch"

\* A call for the symbols `exempt` excepted, the step starts each lookup as
\* the cache rules say, and a lookup that succeeds writes its entry.
CacheRules(exempt) ==
    /\ BatchBegins =>
          \A t \in DOMAIN oracle'.calls :
              LET symbol == toUpperCase(t)
                  young == /\ symbol \in DOMAIN oracle.priceCache
                           /\ oracle.now - oracle.priceCache[symbol].timestamp
                                  < CACHE_DURATION
              IN  symbol \notin exempt =>
                      IF young
                      THEN /\ oracle'.calls[t].pc = "returned"
                           /\ ~oracle'.calls[t].external
                           /\ oracle'.calls[t].result =
                                  oracle.priceCache[symbol].price
                      ELSE /\ oracle'.calls[t].external
                           /\ oracle'.calls[t].pc = "fetch"
    /\ (oracle.pc = "batch" /\ oracle'.pc = "batch") =>
          \A t \in DOMAIN oracle.calls :
              (/\ oracle.calls[t].pc = "json"
               /\ oracle'.calls[t].pc = "returned"
               /\ oracle'.calls[t].outcome = "ok") =>
                  oracle'.priceCache[toUpperCase(t)] =
                      [ price |-> oracle.calls[t].quote.usd,
                        timestamp |-> oracle.now ]

\* C24 as stated: every call made while the symbol's entry is less than an
\* hour old returns the cached price without an external call, every call
\* made while the entry is absent or at least an hour old performs a fresh
\* lookup, and a successful lookup replaces the entry.
C24_Original_CacheTTL == [][CacheRules({})]_vars

\* C24, amended: the same for every symbol but WHYPE, whose calls return the
\* fixed price without a lookup and without a cache entry.
C24_CacheTTL == [][CacheRules({"WHYPE"})]_vars

\* A call one millisecond before the entry of a successful lookup turns an
\* hour old was answered from the cache, with a price that is not the
\* fallback table's.
C24_Witness ==
    /\ oracle.pc = "batch"
    /\ \E t \in DOMAIN oracle.calls :
          /\ oracle.calls[t].outcome = "cached"
          /\ oracle.calls[t].result = 320000
          /\ oracle.now - oracle.priceCache[toUpperCase(t)].timestamp
                 = CACHE_DURATION - 1

\* The price a lookup returns, from what happened to that lookup alone.
OwnPrice(t, call) ==
    CASE call.outcome \in {"notok", "rejected", "badjson"} ->
             fallbackPrices(toUpperCase(t))
      [] call.outcome \in {"ok", "missing"} -> LookupPrice(call.quote)
      [] OTHER -> call.result

C30_BudgetOfTheQuery ==
    budget.pc = "answered" =>
        /\ budget.timeRemaining =
               MAX_FUNCTION_DURATION - (budget.checkedAt - budget.arrivedAt)
        /\ budget.response = "Request Timeout" =>
               budget.checkedAt - budget.arrivedAt > 45000

(***************************************************************************)
(* Properties of the paginator (SpecPag)                                   *)
(***************************************************************************)
\* The step in which the run handles a failed / a successful window fetch.
HandlesThrow == pag.pc = "fetching" /\ ~lastResponse'.ok
HandlesResults == pag.pc = "fetching" /\ lastResponse'.ok

\* C7: a fetch failure on the very first window (nothing collected yet)
\* propagates to the caller; a failure on any later window is absorbed: the
\* window is skipped, pagination goes on with the next window, and what was
\* collected stays collected: every successful window's records are appended
\* and the final return hands back allResults as it stands.
C7_FirstFailurePropagatesLaterAbsorbed ==
    [][ /\ HandlesThrow /\ pag.attempt = 1 => pag'.pc = "threw"
        /\ HandlesThrow /\ pag.attempt > 1 =>
              /\ pag'.pc = "loop"
              /\ pag'.currentStart = requested[Len(requested)][2] + 1
              /\ pag'.allResults = pag.allResults
        /\ HandlesResults =>
              pag'.allResults = pag.allResults \o lastResponse'.results
        /\ pag.pc = "loop" /\ pag'.pc = "returned" =>
              pag'.allResults = pag.allResults ]_vars

\* C7 witness: records were collected, then a later window failed and the
\* run is back at the loop header with the records kept.
C7_Witness ==
    /\ pag.pc = "loop"
    /\ lastResponse = Threw
    /\ pag.attempt > 1
    /\ pag.allResults # <<>>
    /\ pag.currentStart = requested[Len(requested)][2] + 1

\* The step in which the run handles a page of exactly MAX_RESULTS records.
HandlesCap ==
    HandlesResults /\ ResultsLength(lastResponse'.results) = MAX_RESULTS

\* C8 (as stated): when a window returns exactly the page-size cap, the
\* window start is not moved past that window's currentEnd.
C8_Original_CapDoesNotAdvance ==
    [][ HandlesCap => pag'.currentStart <= requested[Len(requested)][2] ]_vars

\* C8 (amended): when a window returns exactly the page-size cap, the run
\* keeps the page and moves its window start to currentEnd + 1, as for any
\* other non-empty window; the capped window is not fetched again.
C8_CapAdvances ==
    [][ HandlesCap =>
          /\ pag'.pc = "loop"
          /\ pag'.currentStart = requested[Len(requested)][2] + 1
          /\ pag'.allResults = pag.allResults \o lastResponse'.results ]_vars

\* C8 witness: a capped page was just handled and the next window is due.
C8_Witness ==
    /\ pag.pc = "loop"
    /\ lastResponse.ok
    /\ ResultsLength(lastResponse.results) = MAX_RESULTS
    /\ pag.currentStart = requested[Len(requested)][2] + 1

\* The step in which the run leaves the loop by `break`.
StopsEarly == pag.pc = "fetching" /\ pag'.pc = "returned"

\* C9 (as stated): the run stops early only with records collected and the
\* consecutive-empty count exceeding the network's threshold.
C9_Original_StopsWhenExceeds ==
    [][ StopsEarly =>
          /\ ResultsLength(pag'.allResults) > 0
          /\ pag'.consecutiveEmptyRanges > MAX_EMPTY_RANGES(pag.network) ]_vars

\* C9 (amended): the run stops before endBlock only once records have been
\* collected and the consecutive-empty count has reached the network's
\* threshold (50 ethereum, 10 hyperevm: it stops on the 50th / 10th empty
\* window in a row); a non-empty window resets the count to 0; otherwise the
\* loop is only left with currentStart beyond endBlock.
C9_StopsWhenThresholdReached ==
    [][ /\ StopsEarly =>
              /\ ResultsLength(pag'.allResults) > 0
              /\ pag'.consecutiveEmptyRanges
                    = (IF pag.network = "ethereum" THEN 50 ELSE 10)
              /\ lastResponse' = Ok(<<>>)
        /\ HandlesResults /\ lastResponse'.results # <<>> =>
              pag'.consecutiveEmptyRanges = 0
        /\ HandlesResults /\ lastResponse'.results = <<>> /\ pag.allResults = <<>> =>
              pag'.pc = "loop"
        /\ pag.pc = "loop" /\ pag'.pc = "returned" =>
              pag.currentStart > pag.endBlock ]_vars

\* C9 witness: an ethereum run stopped early, short of endBlock.
C9_Witness ==
    /\ pag.pc = "returned"
    /\ pag.network = "ethereum"
    /\ pag.currentStart <= pag.endBlock
    /\ pag.consecutiveEmptyRanges = 50
    /\ pag.allResults # <<>>

\* C10: the windows of one run are requested strictly one at a time, the
\* first starts at startBlock, each next one starts at the previous
\* currentEnd + 1 (whatever the previous window returned), and no window is
\* longer than the network's block range or reaches beyond endBlock.
C10_WindowsSequentialContiguous ==
    /\ Cardinality(inflight) <= 1
    /\ (pag.pc = "fetching") = (inflight # {})
    /\ requested # <<>> => requested[1][1] = pag.startBlock
    /\ \A i \in 1..Len(requested) :
          /\ requested[i][1] <= requested[i][2]
          /\ requested[i][2] <= pag.endBlock
          /\ requested[i][2] - requested[i][1] + 1
                <= (IF pag.network = "ethereum" THEN 100000 ELSE 500000)
          /\ i > 1 => requested[i][1] = requested[i - 1][2] + 1

\* C10 witness: a run requested windows after an empty, a non-empty and a
\* failed one.
C10_Witness ==
    /\ Len(requested) >= 4
    /\ pag.pc = "fetching"
    /\ pag.allResults # <<>>
    /\ lastResponse = Threw

\* The step that ends one iteration of the loop (the awaited fetch settles
\* and the try or the catch branch runs).
IterationEnds == pag.pc = "fetching" /\ pag'.pc # "fetching"

AddedUSD(tx, prices) ==
    LET acc == AggregateOne(AggregateStart, tx, prices)
    IN  SumOver(acc.currencyTotalsUSD, DOMAIN acc.currencyTotalsUSD)

\* C35: within one response the usdValue of each recentTransactions entry
\* (at most 20, newest first) is the USD value aggregateFees added to the
\* totals for that transaction: both use the same price for its symbol, ETH
\* (priced as WETH by the aggregator) included.
C35_RecentMatchesTotals ==
    oracle.report # Null =>
        LET recent == oracle.report.recentTransactions
            sorted == SortedNewestFirst(oracle.report.transactions)
        IN  /\ Len(recent) <= RecentLimit
            /\ \A i \in DOMAIN recent :
                  /\ recent[i].hash = sorted[i].hash
                  /\ i > 1 => recent[i - 1].timestamp >= recent[i].timestamp
                  /\ recent[i].usdValue =
                         AddedUSD(sorted[i], oracle.previous.result)

====
